---- MODULE Spec2Model ----
(***************************************************************************)
(* State-machine model of the Solidity contracts of urbe-starter-kit:      *)
(*   URBEToken     (contracts/src/URBEToken.sol)                           *)
(*   TokenRegistry (unnamed/part_009)                                      *)
(*   TokenFactory  (contracts/src/TokenFactory.sol)                        *)
(* Every external function is one action.  A call that reverts leaves the  *)
(* whole state unchanged (EVM revert semantics); the revert reason of a    *)
(* call is computed by a ...Result operator that follows the order of the  *)
(* modifiers and checks of the Solidity code.                              *)
(* A specification runs one contract, or the factory and the registry      *)
(* together where ether moves between them; the storage of a contract that *)
(* is not deployed is empty.                                               *)
(***************************************************************************)
EXTENDS Integers, Sequences, FiniteSets, Bags, TLC

(***************************************************************************)
(* Bounds of the model.                                                    *)
(***************************************************************************)
\* the maxSupply_ constructor argument of the modelled token
MaxSupply == 2
\* uint256 is modelled as 0 .. UintMax with MaxSupply < UintMax; checked
\* arithmetic (Solidity 0.8) panics on a result above UintMax.
UintMax == MaxSupply + 1
\* the initialSupply constructor arguments and the values passed to approve
InitialSupplies == {0, 1}
ApproveValues == {0, 1}

Zero == "0x0"
Users == {"alice", "bob"}
Addresses == Users \cup {Zero}

\* the addresses of the factory and of the registry
FactoryAddress == "factory"
RegistryAddress == "registry"
Uint == 0 .. UintMax

\* the initialOwner constructor argument of the modelled token
InitialOwner == "alice"

DEFAULT_ADMIN_ROLE == "DEFAULT_ADMIN_ROLE"
MINTER_ROLE == "MINTER_ROLE"
BURNER_ROLE == "BURNER_ROLE"
PAUSER_ROLE == "PAUSER_ROLE"
Roles == {DEFAULT_ADMIN_ROLE, MINTER_ROLE, BURNER_ROLE, PAUSER_ROLE}

OK == "ok"
Panic == "Panic(0x11)"

(***************************************************************************)
(* URBEToken state.                                                        *)
(***************************************************************************)
VARIABLES
    balances,        \* ERC20 _balances
    totalSupply,     \* ERC20 _totalSupply
    allowances,      \* ERC20 _allowances[owner][spender]
    owner,           \* Ownable _owner
    roles,           \* AccessControl _roles: role -> set of holders
    mintingEnabled,
    burningEnabled,
    pausingEnabled,
    paused           \* Pausable _paused

tokenVars == <<balances, totalSupply, allowances, owner, roles,
               mintingEnabled, burningEnabled, pausingEnabled, paused>>

(***************************************************************************)
(* TokenRegistry state.                                                    *)
(***************************************************************************)
VARIABLES
    tokenMetadata,          \* token address -> TokenMetadata
    creatorInfo,            \* address -> CreatorInfo
    categories,             \* category id -> CategoryInfo
    regAllTokens,           \* TokenRegistry.allTokens
    allCreators,
    totalTokensRegistered,
    totalCreators,
    totalCategories,
    registrationFee,
    registryPaused,
    registryBalance         \* address(registry).balance

registryVars == <<tokenMetadata, creatorInfo, categories, regAllTokens, allCreators,
                  totalTokensRegistered, totalCreators, totalCategories,
                  registrationFee, registryPaused, registryBalance>>

(***************************************************************************)
(* TokenFactory state.                                                     *)
(***************************************************************************)
VARIABLES
    tokensByCreator,        \* creator -> list of deployed tokens
    tokenInfo,              \* token address -> TokenInfo
    facAllTokens,           \* TokenFactory.allTokens
    totalTokensDeployed,
    maxTokensPerCreator,
    deploymentFee,
    factoryPaused,
    factoryBalance,         \* address(factory).balance
    deployedTokens          \* token address -> the URBEToken the factory created

factoryVars == <<tokensByCreator, tokenInfo, facAllTokens, totalTokensDeployed,
                 maxTokensPerCreator, deploymentFee, factoryPaused, factoryBalance,
                 deployedTokens>>

(***************************************************************************)
(* The call in progress.  A function that calls another contract hands     *)
(* control to it in the middle of its run: executing says which contract   *)
(* is waiting for such a call to return, in which function, whether the    *)
(* function set the ReentrancyGuard of the contract (nonReentrant), and    *)
(* the arguments the function goes on with.  Every other function runs in  *)
(* one step.                                                               *)
(***************************************************************************)
VARIABLE executing

NoCall == [contract |-> "none", function |-> "", entered |-> FALSE, args |-> <<>>]

\* no contract is in the middle of a call
idle == executing.contract = "none"

\* ReentrancyGuard.nonReentrant of the contract self
nonReentrant(self) ==
    IF executing.contract = self /\ executing.entered
    THEN "ReentrancyGuardReentrantCall" ELSE OK

(***************************************************************************)
(* SimpleStorage state.                                                    *)
(***************************************************************************)
VARIABLES
    storageOwner,           \* Ownable._owner of the SimpleStorage
    storedValue,            \* _storedValue
    totalStores,            \* _totalStores
    userStores              \* _userStores: address -> uint256

storageVars == <<storageOwner, storedValue, totalStores, userStores>>

\* no SimpleStorage is deployed: its storage is empty
StorageAbsent ==
    /\ storageOwner = Zero
    /\ storedValue = 0
    /\ totalStores = 0
    /\ userStores = <<>>

(***************************************************************************)
(* State of one component that uses the hook useWalletTransactions.        *)
(***************************************************************************)
VARIABLES
    address,                \* useAccount().address
    transactions,           \* useState<Transaction[]>([])
    isLoading,              \* useState(false)
    error,                  \* useState<string | null>(null)
    fetching                \* the calls of fetchTransactions that have not
                            \* settled: a bag of the address each one read

walletVars == <<address, transactions, isLoading, error, fetching>>

\* the value of useAccount().address while no account is connected
Undefined == "undefined"

\* the null of useState<string | null>
Null == "null"

\* no component uses the hook: its state is the initial state of useState
WalletAbsent ==
    /\ address = Undefined
    /\ transactions = <<>>
    /\ isLoading = FALSE
    /\ error = Null
    /\ fetching = EmptyBag

(***************************************************************************)
(* State of the AuthCallbackPage, of its timers and of the router.         *)
(***************************************************************************)
VARIABLES
    mounted,                \* "no" before the page is mounted, then "yes",
                            \* then "gone" once it is unmounted
    searchParams,           \* the names of the parameters of the URL
    status,                 \* useState<'loading' | 'success' | 'error'>
    message,                \* useState('Processing authentication...')
    exchanges,              \* calls of handleAuthCallback waiting at the
                            \* await of l.35
    timers,                 \* pending setTimeout(() => navigate(to), _): a
                            \* bag of the paths
    navigations             \* the paths navigate was called with, in order

pageVars == <<mounted, searchParams, status, message, exchanges, timers, navigations>>

\* the page was never rendered
PageAbsent ==
    /\ mounted = "no"
    /\ searchParams = {}
    /\ status = "loading"
    /\ message = "Processing authentication..."
    /\ exchanges = 0
    /\ timers = EmptyBag
    /\ navigations = <<>>

\* the programs next to the token, the registry and the factory
appVars == <<storageVars, walletVars, pageVars>>

AppAbsent == StorageAbsent /\ WalletAbsent /\ PageAbsent

vars == <<tokenVars, registryVars, factoryVars, executing, appVars>>

hasRole(role, account) == account \in roles[role]
balanceOf(account) == IF account \in Users THEN balances[account] ELSE 0
allowance(o, s) == IF o \in Users /\ s \in Users THEN allowances[<<o, s>>] ELSE 0

\* URBEToken.remainingMintableSupply
remainingMintableSupply == MaxSupply - totalSupply

(***************************************************************************)
(* Modifiers (OpenZeppelin Ownable, AccessControl, Pausable).              *)
(***************************************************************************)
onlyOwner(caller) == IF caller # owner THEN "OwnableUnauthorizedAccount" ELSE OK
onlyRole(role, caller) ==
    IF ~hasRole(role, caller) THEN "AccessControlUnauthorizedAccount" ELSE OK
whenNotPaused == IF paused THEN "EnforcedPause" ELSE OK
whenPaused == IF ~paused THEN "ExpectedPause" ELSE OK

\* the modifiers and the body of a function run in order: the first failing
\* check is the revert reason of the call
Then(first, rest) == IF first # OK THEN first ELSE rest

(***************************************************************************)
(* Internal functions of URBEToken: revert reason, then effect.            *)
(***************************************************************************)
\* mutant: _update without whenNotPaused
updateResultNoPause(from, to, value) ==
    IF from # Zero /\ balanceOf(from) < value THEN "ERC20InsufficientBalance"
    ELSE IF from = Zero /\ totalSupply + value > UintMax THEN Panic
    ELSE OK

\* URBEToken._update (whenNotPaused) over ERC20._update
updateResult(from, to, value) ==
    IF paused THEN "EnforcedPause"
    ELSE IF from # Zero /\ balanceOf(from) < value THEN "ERC20InsufficientBalance"
    ELSE IF from = Zero /\ totalSupply + value > UintMax THEN Panic
    ELSE OK

newBalances(from, to, value) ==
    LET afterDebit == IF from = Zero THEN balances
                      ELSE [balances EXCEPT ![from] = @ - value]
    IN  IF to = Zero THEN afterDebit
        ELSE [afterDebit EXCEPT ![to] = @ + value]

newTotalSupply(from, to, value) ==
    IF from = Zero THEN totalSupply + value
    ELSE IF to = Zero THEN totalSupply - value
    ELSE totalSupply

\* mutant: _mintTokens without the maxSupply check
mintTokensResultNoCap(to, amount) ==
    IF ~mintingEnabled THEN "MintingDisabled"
    ELSE IF to = Zero THEN "ZeroAddress"
    ELSE IF amount = 0 THEN "ZeroAmount"
    ELSE updateResult(Zero, to, amount)

\* URBEToken._mintTokens
mintTokensResult(to, amount) ==
    IF ~mintingEnabled THEN "MintingDisabled"
    ELSE IF to = Zero THEN "ZeroAddress"
    ELSE IF amount = 0 THEN "ZeroAmount"
    ELSE IF totalSupply + amount > UintMax THEN Panic
    ELSE IF totalSupply + amount > MaxSupply THEN "MaxSupplyExceeded"
    ELSE updateResult(Zero, to, amount)

\* mutant: _burnTokens without the burningEnabled check
burnTokensResultAlwaysEnabled(from, amount) ==
    IF amount = 0 THEN "ZeroAmount"
    ELSE IF balanceOf(from) < amount THEN "InsufficientBalance"
    ELSE updateResult(from, Zero, amount)

\* URBEToken._burnTokens
burnTokensResult(from, amount) ==
    IF ~burningEnabled THEN "BurningDisabled"
    ELSE IF amount = 0 THEN "ZeroAmount"
    ELSE IF balanceOf(from) < amount THEN "InsufficientBalance"
    ELSE updateResult(from, Zero, amount)

\* URBEToken._burnTokensFrom
burnTokensFromResult(from, amount) ==
    IF ~burningEnabled THEN "BurningDisabled"
    ELSE IF from = Zero THEN "ZeroAddress"
    ELSE IF amount = 0 THEN "ZeroAmount"
    ELSE IF balanceOf(from) < amount THEN "InsufficientBalance"
    ELSE updateResult(from, Zero, amount)

(***************************************************************************)
(* External functions: revert reason of a call in the current state.       *)
(***************************************************************************)
\* mutant: mint without onlyOwner
mintResultAnyCaller(caller, to, amount) ==
    Then(whenNotPaused, mintTokensResult(to, amount))

mintResult(caller, to, amount) ==
    Then(onlyOwner(caller), Then(whenNotPaused, mintTokensResult(to, amount)))

mintByMinterResult(caller, to, amount) ==
    Then(onlyRole(MINTER_ROLE, caller),
         Then(whenNotPaused, mintTokensResult(to, amount)))

\* mutant: burn restricted to the holders of BURNER_ROLE
burnResultOnlyBurner(caller, amount) ==
    Then(onlyRole(BURNER_ROLE, caller),
         Then(whenNotPaused, burnTokensResult(caller, amount)))

burnResult(caller, amount) ==
    Then(whenNotPaused, burnTokensResult(caller, amount))

\* mutant: burnFrom without onlyRole(BURNER_ROLE)
burnFromResultAnyCaller(caller, from, amount) ==
    Then(whenNotPaused, burnTokensFromResult(from, amount))

burnFromResult(caller, from, amount) ==
    Then(onlyRole(BURNER_ROLE, caller),
         Then(whenNotPaused, burnTokensFromResult(from, amount)))

pauseResult(caller) ==
    Then(onlyRole(PAUSER_ROLE, caller),
         Then(whenNotPaused, IF ~pausingEnabled THEN "PausingDisabled" ELSE OK))

\* mutant: unpause without the pausingEnabled check
unpauseResultAlways(caller) ==
    Then(onlyRole(PAUSER_ROLE, caller), whenPaused)

unpauseResult(caller) ==
    Then(onlyRole(PAUSER_ROLE, caller),
         Then(whenPaused, IF ~pausingEnabled THEN "PausingDisabled" ELSE OK))

\* grantMinterRole, revokeMinterRole, grantBurnerRole, ... : onlyOwner, then
\* the zero-address check
ownerRoleResult(caller, account) ==
    Then(onlyOwner(caller), IF account = Zero THEN "ZeroAddress" ELSE OK)

\* ERC20.transfer -> _transfer -> _update
transferResult(caller, to, value) ==
    IF to = Zero THEN "ERC20InvalidReceiver"
    ELSE updateResult(caller, to, value)

\* ERC20.transferFrom -> _spendAllowance, _transfer
transferFromResult(caller, from, to, value) ==
    IF allowance(from, caller) # UintMax /\ allowance(from, caller) < value
        THEN "ERC20InsufficientAllowance"
    ELSE IF from = Zero THEN "ERC20InvalidSender"
    ELSE IF to = Zero THEN "ERC20InvalidReceiver"
    ELSE updateResult(from, to, value)

approveResult(caller, spender, value) ==
    IF spender = Zero THEN "ERC20InvalidSpender" ELSE OK

transferOwnershipResult(caller, newOwner) ==
    Then(onlyOwner(caller), IF newOwner = Zero THEN "OwnableInvalidOwner" ELSE OK)

\* AccessControl.grantRole / revokeRole: onlyRole(getRoleAdmin(role)), and the
\* admin role of every role is DEFAULT_ADMIN_ROLE
adminRoleResult(caller, role) == onlyRole(DEFAULT_ADMIN_ROLE, caller)

renounceRoleResult(caller, role, callerConfirmation) ==
    IF callerConfirmation # caller THEN "AccessControlBadConfirmation" ELSE OK

(***************************************************************************)
(* Actions: one per external function.                                     *)
(***************************************************************************)
UnchangedFlags == UNCHANGED <<mintingEnabled, burningEnabled, pausingEnabled>>

\* a successful ERC20._update
Moved(from, to, value) ==
    /\ balances' = newBalances(from, to, value)
    /\ totalSupply' = newTotalSupply(from, to, value)
    /\ UNCHANGED <<owner, roles, paused>>
    /\ UnchangedFlags

mint(caller, to, amount) ==
    /\ IF mintResult(caller, to, amount) = OK
       THEN Moved(Zero, to, amount) /\ UNCHANGED allowances
       ELSE UNCHANGED tokenVars
    /\ UNCHANGED <<registryVars, factoryVars, executing, appVars>>

mintByMinter(caller, to, amount) ==
    /\ IF mintByMinterResult(caller, to, amount) = OK
       THEN Moved(Zero, to, amount) /\ UNCHANGED allowances
       ELSE UNCHANGED tokenVars
    /\ UNCHANGED <<registryVars, factoryVars, executing, appVars>>

burn(caller, amount) ==
    /\ IF burnResult(caller, amount) = OK
       THEN Moved(caller, Zero, amount) /\ UNCHANGED allowances
       ELSE UNCHANGED tokenVars
    /\ UNCHANGED <<registryVars, factoryVars, executing, appVars>>

burnFrom(caller, from, amount) ==
    /\ IF burnFromResult(caller, from, amount) = OK
       THEN Moved(from, Zero, amount) /\ UNCHANGED allowances
       ELSE UNCHANGED tokenVars
    /\ UNCHANGED <<registryVars, factoryVars, executing, appVars>>

transfer(caller, to, value) ==
    /\ IF transferResult(caller, to, value) = OK
       THEN Moved(caller, to, value) /\ UNCHANGED allowances
       ELSE UNCHANGED tokenVars
    /\ UNCHANGED <<registryVars, factoryVars, executing, appVars>>

transferFrom(caller, from, to, value) ==
    /\ IF transferFromResult(caller, from, to, value) = OK
       THEN /\ Moved(from, to, value)
            /\ allowances' = IF allowance(from, caller) = UintMax THEN allowances
                             ELSE [allowances EXCEPT ![<<from, caller>>] = @ - value]
       ELSE UNCHANGED tokenVars
    /\ UNCHANGED <<registryVars, factoryVars, executing, appVars>>

approve(caller, spender, value) ==
    /\ IF approveResult(caller, spender, value) = OK
       THEN /\ allowances' = [allowances EXCEPT ![<<caller, spender>>] = value]
            /\ UNCHANGED <<balances, totalSupply, owner, roles, paused>>
            /\ UnchangedFlags
       ELSE UNCHANGED tokenVars
    /\ UNCHANGED <<registryVars, factoryVars, executing, appVars>>

pause(caller) ==
    /\ IF pauseResult(caller) = OK
       THEN /\ paused' = TRUE
            /\ UNCHANGED <<balances, totalSupply, allowances, owner, roles>>
            /\ UnchangedFlags
       ELSE UNCHANGED tokenVars
    /\ UNCHANGED <<registryVars, factoryVars, executing, appVars>>

unpause(caller) ==
    /\ IF unpauseResult(caller) = OK
       THEN /\ paused' = FALSE
            /\ UNCHANGED <<balances, totalSupply, allowances, owner, roles>>
            /\ UnchangedFlags
       ELSE UNCHANGED tokenVars
    /\ UNCHANGED <<registryVars, factoryVars, executing, appVars>>

toggleMinting(caller, enabled) ==
    /\ IF onlyOwner(caller) = OK
       THEN /\ mintingEnabled' = enabled
            /\ UNCHANGED <<balances, totalSupply, allowances, owner, roles, paused,
                           burningEnabled, pausingEnabled>>
       ELSE UNCHANGED tokenVars
    /\ UNCHANGED <<registryVars, factoryVars, executing, appVars>>

toggleBurning(caller, enabled) ==
    /\ IF onlyOwner(caller) = OK
       THEN /\ burningEnabled' = enabled
            /\ UNCHANGED <<balances, totalSupply, allowances, owner, roles, paused,
                           mintingEnabled, pausingEnabled>>
       ELSE UNCHANGED tokenVars
    /\ UNCHANGED <<registryVars, factoryVars, executing, appVars>>

togglePausing(caller, enabled) ==
    /\ IF onlyOwner(caller) = OK
       THEN /\ pausingEnabled' = enabled
            /\ UNCHANGED <<balances, totalSupply, allowances, owner, roles, paused,
                           mintingEnabled, burningEnabled>>
       ELSE UNCHANGED tokenVars
    /\ UNCHANGED <<registryVars, factoryVars, executing, appVars>>

\* AccessControl._grantRole / _revokeRole
RolesChanged(newRoles) ==
    /\ roles' = newRoles
    /\ UNCHANGED <<balances, totalSupply, allowances, owner, paused>>
    /\ UnchangedFlags

granted(role, account) == [roles EXCEPT ![role] = @ \cup {account}]
revoked(role, account) == [roles EXCEPT ![role] = @ \ {account}]

grantMinterRole(caller, minter) ==
    /\ IF ownerRoleResult(caller, minter) = OK
       THEN RolesChanged(granted(MINTER_ROLE, minter))
       ELSE UNCHANGED tokenVars
    /\ UNCHANGED <<registryVars, factoryVars, executing, appVars>>

revokeMinterRole(caller, minter) ==
    /\ IF ownerRoleResult(caller, minter) = OK
       THEN RolesChanged(revoked(MINTER_ROLE, minter))
       ELSE UNCHANGED tokenVars
    /\ UNCHANGED <<registryVars, factoryVars, executing, appVars>>

grantBurnerRole(caller, burner) ==
    /\ IF ownerRoleResult(caller, burner) = OK
       THEN RolesChanged(granted(BURNER_ROLE, burner))
       ELSE UNCHANGED tokenVars
    /\ UNCHANGED <<registryVars, factoryVars, executing, appVars>>

revokeBurnerRole(caller, burner) ==
    /\ IF ownerRoleResult(caller, burner) = OK
       THEN RolesChanged(revoked(BURNER_ROLE, burner))
       ELSE UNCHANGED tokenVars
    /\ UNCHANGED <<registryVars, factoryVars, executing, appVars>>

grantPauserRole(caller, pauser) ==
    /\ IF ownerRoleResult(caller, pauser) = OK
       THEN RolesChanged(granted(PAUSER_ROLE, pauser))
       ELSE UNCHANGED tokenVars
    /\ UNCHANGED <<registryVars, factoryVars, executing, appVars>>

revokePauserRole(caller, pauser) ==
    /\ IF ownerRoleResult(caller, pauser) = OK
       THEN RolesChanged(revoked(PAUSER_ROLE, pauser))
       ELSE UNCHANGED tokenVars
    /\ UNCHANGED <<registryVars, factoryVars, executing, appVars>>

grantRole(caller, role, account) ==
    /\ IF adminRoleResult(caller, role) = OK
       THEN RolesChanged(granted(role, account))
       ELSE UNCHANGED tokenVars
    /\ UNCHANGED <<registryVars, factoryVars, executing, appVars>>

revokeRole(caller, role, account) ==
    /\ IF adminRoleResult(caller, role) = OK
       THEN RolesChanged(revoked(role, account))
       ELSE UNCHANGED tokenVars
    /\ UNCHANGED <<registryVars, factoryVars, executing, appVars>>

renounceRole(caller, role, callerConfirmation) ==
    /\ IF renounceRoleResult(caller, role, callerConfirmation) = OK
       THEN RolesChanged(revoked(role, callerConfirmation))
       ELSE UNCHANGED tokenVars
    /\ UNCHANGED <<registryVars, factoryVars, executing, appVars>>

OwnerChanged(newOwner) ==
    /\ owner' = newOwner
    /\ UNCHANGED <<balances, totalSupply, allowances, roles, paused>>
    /\ UnchangedFlags

transferOwnership(caller, newOwner) ==
    /\ IF transferOwnershipResult(caller, newOwner) = OK
       THEN OwnerChanged(newOwner)
       ELSE UNCHANGED tokenVars
    /\ UNCHANGED <<registryVars, factoryVars, executing, appVars>>

renounceOwnership(caller) ==
    /\ IF onlyOwner(caller) = OK
       THEN OwnerChanged(Zero)
       ELSE UNCHANGED tokenVars
    /\ UNCHANGED <<registryVars, factoryVars, executing, appVars>>

(***************************************************************************)
(* The token after its constructor, for the initial supplies of            *)
(* InitialSupplies and every choice of the three feature flags.            *)
(***************************************************************************)
InitToken ==
    /\ \E initialSupply \in InitialSupplies :
          /\ balances = [u \in Users |->
                            IF u = InitialOwner THEN initialSupply ELSE 0]
          /\ totalSupply = initialSupply
    /\ allowances = [p \in Users \X Users |-> 0]
    /\ owner = InitialOwner
    /\ roles = [r \in Roles |-> {InitialOwner}]
    /\ mintingEnabled \in BOOLEAN
    /\ burningEnabled \in BOOLEAN
    /\ pausingEnabled \in BOOLEAN
    /\ paused = FALSE

NextToken ==
    \E caller \in Users :
        \/ \E to \in Addresses, amount \in Uint : mint(caller, to, amount)
        \/ \E to \in Addresses, amount \in Uint : mintByMinter(caller, to, amount)
        \/ \E amount \in Uint : burn(caller, amount)
        \/ \E from \in Addresses, amount \in Uint : burnFrom(caller, from, amount)
        \/ \E to \in Addresses, value \in Uint : transfer(caller, to, value)
        \/ \E from \in Users, to \in Addresses, value \in Uint :
              transferFrom(caller, from, to, value)
        \/ \E spender \in Addresses \ {caller}, value \in ApproveValues :
              approve(caller, spender, value)
        \/ pause(caller)
        \/ unpause(caller)
        \/ \E enabled \in BOOLEAN : toggleMinting(caller, enabled)
        \/ \E enabled \in BOOLEAN : toggleBurning(caller, enabled)
        \/ \E enabled \in BOOLEAN : togglePausing(caller, enabled)
        \/ \E account \in Addresses : grantMinterRole(caller, account)
        \/ \E account \in Addresses : revokeMinterRole(caller, account)
        \/ \E account \in Addresses : grantBurnerRole(caller, account)
        \/ \E account \in Addresses : revokeBurnerRole(caller, account)
        \/ \E account \in Addresses : grantPauserRole(caller, account)
        \/ \E account \in Addresses : revokePauserRole(caller, account)
        \/ \E newOwner \in Addresses : transferOwnership(caller, newOwner)
        \/ renounceOwnership(caller)

\* no URBEToken is deployed: its storage is empty
TokenAbsent ==
    /\ balances = <<>>
    /\ totalSupply = 0
    /\ allowances = <<>>
    /\ owner = Zero
    /\ roles = <<>>
    /\ mintingEnabled = FALSE
    /\ burningEnabled = FALSE
    /\ pausingEnabled = FALSE
    /\ paused = FALSE

(***************************************************************************)
(* Claims about URBEToken, checked under SpecTokenMovement.                *)
(***************************************************************************)
\* a mint by the owner that passes every check before the supply check
MintReachesCap(c, to, amount) ==
    /\ c = owner /\ ~paused /\ mintingEnabled /\ to # Zero /\ amount # 0
    /\ totalSupply + amount > MaxSupply

C2_MintAuthorized ==
    \A c \in Users, to \in Addresses, amount \in Uint :
        /\ mintResult(c, to, amount) = OK => c = owner
        /\ c # owner => mintResult(c, to, amount) = "OwnableUnauthorizedAccount"
        /\ mintByMinterResult(c, to, amount) = OK => hasRole(MINTER_ROLE, c)
        /\ ~hasRole(MINTER_ROLE, c)
              => mintByMinterResult(c, to, amount)
                    = "AccessControlUnauthorizedAccount"

C2_SupplyGrowsByMintOnly ==
    totalSupply' > totalSupply
       => \E c \in Users, to \in Users, amount \in Uint :
             \/ c = owner /\ mint(c, to, amount)
             \/ hasRole(MINTER_ROLE, c) /\ mintByMinter(c, to, amount)

C3_PausedRejectsAll ==
    \A c \in Users, a \in Addresses, b \in Addresses, v \in Uint :
        /\ paused
              => /\ transferResult(c, a, v) # OK
                 /\ transferFromResult(c, a, b, v) # OK
                 /\ mintResult(c, a, v) # OK
                 /\ mintByMinterResult(c, a, v) # OK
                 /\ burnResult(c, v) # OK
                 /\ burnFromResult(c, a, v) # OK
        /\ (~paused /\ a \in Users /\ v <= balanceOf(c))
              => transferResult(c, a, v) = OK

C3_PausedFreezes ==
    paused => (balances' = balances /\ totalSupply' = totalSupply)

C3_PauseBlocksMovement == []C3_PausedRejectsAll /\ [][C3_PausedFreezes]_vars

\* the token is paused while both accounts hold tokens
C3_Witness ==
    /\ paused
    /\ totalSupply = MaxSupply
    /\ \A u \in Users : balanceOf(u) >= 1


(***************************************************************************)
(* TokenRegistry.                                                          *)
(*                                                                         *)
(* The registry asks the token for name(), symbol(), decimals(),           *)
(* totalSupply() and maxSupply().  Tokens are the ERC20 contracts of the   *)
(* model; NoCode is an address without code (the call succeeds and returns *)
(* no data) and NoName is a token whose name() is the empty string.        *)
(***************************************************************************)
Tokens == {"t1", "t2"}
NoCode == "eoa"
NoName == "noname"
TokenAddresses == Tokens \cup {NoCode, NoName, Zero}

TokenName(t) == IF t \in Tokens THEN "Token " \o t ELSE ""
TokenSymbol(t) == IF t \in Tokens \cup {NoName} THEN "SYM" ELSE ""
TokenDecimals == 18
\* the answer of totalSupply() at the time of the registration
TokenSupplies == {1}

\* the constructor arguments
RegistryOwner == "alice"
InitialRegistrationFee == 0
DefaultCategories == 5
\* createCategory is called until there are MaxCategories categories
MaxCategories == 6
\* ETH is received until the registry holds MaxBalance
MaxBalance == 1
\* setTokenVerification(_, true) is called until a counter is MaxVerified
MaxVerified == 2
\* block.timestamp
Timestamps == {1}
MsgValues == {0, 1}
Fees == {0, 1}
CategoryInputs == {0, 5}
\* description, website and logo of a registration or an update
MetaInputs == {[description |-> "d1", website |-> "w1", logo |-> "l1"],
               [description |-> "d2", website |-> "w2", logo |-> "l2"]}
TagInputs == {<<"tag">>}
NameInputs == {"", "n"}
DescriptionInputs == {"", "d"}

\* the zero value of the structs (an unwritten mapping slot)
NoMetadata ==
    [tokenAddress |-> Zero, name |-> "", symbol |-> "", decimals |-> 0,
     totalSupply |-> 0, maxSupply |-> 0, creator |-> Zero, registeredAt |-> 0,
     description |-> "", website |-> "", logo |-> "", verified |-> FALSE,
     active |-> FALSE, category |-> 0, tags |-> <<>>]

NoCreator ==
    [creator |-> Zero, totalTokens |-> 0, verifiedTokens |-> 0, totalVolume |-> 0,
     lastActivity |-> 0, verified |-> FALSE, name |-> "", description |-> ""]

NoCategory == [name |-> "", description |-> "", tokenCount |-> 0, active |-> FALSE]

CategoryIds == 0 .. MaxCategories

onlyRegistryOwner(caller) ==
    IF caller # RegistryOwner THEN "OwnableUnauthorizedAccount" ELSE OK

\* view functions
isTokenRegistered(t) == tokenMetadata[t].active
isCreatorRegistered(c) == creatorInfo[c].creator # Zero

\* the loops of getTokensByCreator, getTokensByCategory and getVerifiedTokens
\* copy the elements of allTokens that pass the test, in order
getTokensByCreator(c) ==
    LET Keep(t) == tokenMetadata[t].creator = c IN SelectSeq(regAllTokens, Keep)
getVerifiedTokens ==
    LET Keep(t) == tokenMetadata[t].verified IN SelectSeq(regAllTokens, Keep)
getTokensByCategory(k) ==
    LET Keep(t) == tokenMetadata[t].category = k IN SelectSeq(regAllTokens, Keep)
getVerifiedCreators ==
    LET Keep(c) == creatorInfo[c].verified IN SelectSeq(allCreators, Keep)

\* mutant: getTokensByCategory without the check of categoryId
getTokensByCategoryResultAnyId(k) == OK

getTokensByCategoryResult(k) ==
    IF k >= totalCategories THEN "InvalidCategoryId" ELSE OK

\* the loops of getStatistics count the verified entries of allTokens and of
\* allCreators
getStatistics ==
    [totalTokens |-> totalTokensRegistered,
     totalCreators |-> totalCreators,
     totalCategories |-> totalCategories,
     verifiedTokens |->
        Cardinality({i \in DOMAIN regAllTokens :
                        tokenMetadata[regAllTokens[i]].verified}),
     verifiedCreators |->
        Cardinality({i \in DOMAIN allCreators :
                        creatorInfo[allCreators[i]].verified})]

(***************************************************************************)
(* Revert reasons of the registry's functions.                             *)
(***************************************************************************)
\* mutant: _registerToken without the TokenAlreadyRegistered check
registerTokenResultNoActiveCheck(tokenAddress, category, value) ==
    IF nonReentrant(RegistryAddress) # OK THEN nonReentrant(RegistryAddress)
    ELSE IF registryPaused THEN "RegistryPaused"
    ELSE IF tokenAddress = Zero THEN "InvalidTokenAddress"
    ELSE IF category >= totalCategories THEN "InvalidCategoryId"
    ELSE IF value < registrationFee THEN "InsufficientRegistrationFee"
    ELSE IF tokenAddress = NoCode THEN "InvalidTokenAddress"
    ELSE IF TokenName(tokenAddress) = "" THEN "EmptyName"
    ELSE IF TokenSymbol(tokenAddress) = "" THEN "EmptySymbol"
    ELSE OK

\* TokenRegistry._registerToken: the validation checks, then the calls to the
\* token
registerTokenResult(tokenAddress, category, value) ==
    IF nonReentrant(RegistryAddress) # OK THEN nonReentrant(RegistryAddress)
    ELSE IF registryPaused THEN "RegistryPaused"
    ELSE IF tokenAddress = Zero THEN "InvalidTokenAddress"
    ELSE IF tokenMetadata[tokenAddress].active THEN "TokenAlreadyRegistered"
    ELSE IF category >= totalCategories THEN "InvalidCategoryId"
    ELSE IF value < registrationFee THEN "InsufficientRegistrationFee"
    ELSE IF tokenAddress = NoCode THEN "InvalidTokenAddress"
    ELSE IF TokenName(tokenAddress) = "" THEN "EmptyName"
    ELSE IF TokenSymbol(tokenAddress) = "" THEN "EmptySymbol"
    ELSE OK

\* mutant: updateTokenMetadata without the OnlyCreator check
updateTokenMetadataResultAnyCaller(caller, tokenAddress) ==
    IF ~tokenMetadata[tokenAddress].active THEN "TokenNotRegistered" ELSE OK

updateTokenMetadataResult(caller, tokenAddress) ==
    IF tokenMetadata[tokenAddress].creator # caller THEN "OnlyCreator"
    ELSE IF ~tokenMetadata[tokenAddress].active THEN "TokenNotRegistered"
    ELSE OK

registerCreatorResult(name, description) ==
    IF name = "" THEN "EmptyName"
    ELSE IF description = "" THEN "EmptyDescription"
    ELSE OK

updateCreatorInfoResult(caller, name, description) ==
    IF creatorInfo[caller].creator = Zero THEN "InvalidCreatorAddress"
    ELSE IF name = "" THEN "EmptyName"
    ELSE IF description = "" THEN "EmptyDescription"
    ELSE OK

\* verifiedTokens-- is checked arithmetic: it panics at zero
setTokenVerificationResult(caller, tokenAddress, verified) ==
    Then(onlyRegistryOwner(caller),
         IF ~tokenMetadata[tokenAddress].active THEN "TokenNotRegistered"
         ELSE IF ~verified
                 /\ creatorInfo[tokenMetadata[tokenAddress].creator].verifiedTokens = 0
              THEN Panic
         ELSE OK)

setCreatorVerificationResult(caller, creator) ==
    Then(onlyRegistryOwner(caller),
         IF creatorInfo[creator].creator = Zero THEN "InvalidCreatorAddress" ELSE OK)

updateCategoryResult(caller, categoryId) ==
    Then(onlyRegistryOwner(caller),
         IF categoryId >= totalCategories THEN "InvalidCategoryId" ELSE OK)

\* to.call{value: amount}(""): a URBEToken has no receive and no fallback
\* function and refuses the ETH; a user's account, the factory and the registry
\* take it
acceptsETH(to) == to \notin Tokens

\* to.call{value: amount}("") made by self: what self holds afterwards
balanceAfterSend(balance, amount, to, self) ==
    IF to = self THEN balance ELSE balance - amount

\* mutant: withdrawFees without onlyOwner
registryWithdrawFeesResultAnyCaller(caller, amount, to) ==
    IF to = Zero THEN "InvalidCreatorAddress"
    ELSE IF amount > registryBalance THEN "InsufficientRegistrationFee"
    ELSE IF ~acceptsETH(to) THEN "revert()"
    ELSE OK

registryWithdrawFeesResult(caller, amount, to) ==
    Then(onlyRegistryOwner(caller),
         IF to = Zero THEN "InvalidCreatorAddress"
         ELSE IF amount > registryBalance THEN "InsufficientRegistrationFee"
         ELSE IF ~acceptsETH(to) THEN "revert()"
         ELSE OK)

(***************************************************************************)
(* Actions of the registry.                                                *)
(***************************************************************************)
\* ETH is only sent while the registry's balance stays within MaxBalance
CanReceive(value) == registryBalance + value <= MaxBalance

\* TokenRegistry._registerToken, after the validation checks
Registered(tokenAddress, meta, category, tags, creator, value, supply, now) ==
    /\ tokenMetadata' = [tokenMetadata EXCEPT ![tokenAddress] =
          [tokenAddress |-> tokenAddress,
           name |-> TokenName(tokenAddress),
           symbol |-> TokenSymbol(tokenAddress),
           decimals |-> TokenDecimals,
           totalSupply |-> supply,
           maxSupply |-> MaxSupply,
           creator |-> creator,
           registeredAt |-> now,
           description |-> meta.description,
           website |-> meta.website,
           logo |-> meta.logo,
           verified |-> FALSE,
           active |-> TRUE,
           category |-> category,
           tags |-> tags]]
    /\ regAllTokens' = Append(regAllTokens, tokenAddress)
    /\ totalTokensRegistered' = totalTokensRegistered + 1
    /\ IF creatorInfo[creator].creator = Zero
       THEN /\ creatorInfo' = [creatorInfo EXCEPT ![creator] =
                  [creator |-> creator, totalTokens |-> 1, verifiedTokens |-> 0,
                   totalVolume |-> 0, lastActivity |-> now, verified |-> FALSE,
                   name |-> "", description |-> ""]]
            /\ allCreators' = Append(allCreators, creator)
            /\ totalCreators' = totalCreators + 1
       ELSE /\ creatorInfo' = [creatorInfo EXCEPT
                  ![creator].totalTokens = @ + 1,
                  ![creator].lastActivity = now]
            /\ UNCHANGED <<allCreators, totalCreators>>
    /\ registryBalance' = registryBalance + value
    /\ UNCHANGED <<categories, totalCategories, registrationFee, registryPaused>>

registerToken(caller, tokenAddress, meta, category, tags, value, supply, now) ==
    /\ /\ CanReceive(value)
       /\ IF registerTokenResult(tokenAddress, category, value) = OK
          THEN Registered(tokenAddress, meta, category, tags, caller, value, supply, now)
          ELSE UNCHANGED registryVars
    /\ UNCHANGED <<tokenVars, factoryVars, executing, appVars>>

registerTokenForCreator(caller, tokenAddress, meta, category, tags, creator, value, supply, now) ==
    /\ /\ CanReceive(value)
       /\ IF registerTokenResult(tokenAddress, category, value) = OK
          THEN Registered(tokenAddress, meta, category, tags, creator, value, supply, now)
          ELSE UNCHANGED registryVars
    /\ UNCHANGED <<tokenVars, factoryVars, executing, appVars>>

updateTokenMetadata(caller, tokenAddress, meta) ==
    /\ IF updateTokenMetadataResult(caller, tokenAddress) = OK
       THEN /\ tokenMetadata' = [tokenMetadata EXCEPT
                   ![tokenAddress].description = meta.description,
                   ![tokenAddress].website = meta.website,
                   ![tokenAddress].logo = meta.logo]
            /\ UNCHANGED <<creatorInfo, categories, regAllTokens, allCreators,
                           totalTokensRegistered, totalCreators, totalCategories,
                           registrationFee, registryPaused, registryBalance>>
       ELSE UNCHANGED registryVars
    /\ UNCHANGED <<tokenVars, factoryVars, executing, appVars>>

registerCreator(caller, name, description, now) ==
    /\ IF registerCreatorResult(name, description) = OK
       THEN LET isNewCreator == creatorInfo[caller].creator = Zero
                old == creatorInfo[caller]
            IN  /\ creatorInfo' = [creatorInfo EXCEPT ![caller] =
                      [creator |-> caller,
                       totalTokens |-> IF isNewCreator THEN 0 ELSE old.totalTokens,
                       verifiedTokens |-> IF isNewCreator THEN 0 ELSE old.verifiedTokens,
                       totalVolume |-> IF isNewCreator THEN 0 ELSE old.totalVolume,
                       lastActivity |-> now,
                       verified |-> IF isNewCreator THEN FALSE ELSE old.verified,
                       name |-> name,
                       description |-> description]]
                /\ IF isNewCreator
                   THEN /\ allCreators' = Append(allCreators, caller)
                        /\ totalCreators' = totalCreators + 1
                   ELSE UNCHANGED <<allCreators, totalCreators>>
                /\ UNCHANGED <<tokenMetadata, categories, regAllTokens,
                               totalTokensRegistered, totalCategories,
                               registrationFee, registryPaused, registryBalance>>
       ELSE UNCHANGED registryVars
    /\ UNCHANGED <<tokenVars, factoryVars, executing, appVars>>

updateCreatorInfo(caller, name, description, now) ==
    /\ IF updateCreatorInfoResult(caller, name, description) = OK
       THEN /\ creatorInfo' = [creatorInfo EXCEPT
                   ![caller].name = name,
                   ![caller].description = description,
                   ![caller].lastActivity = now]
            /\ UNCHANGED <<tokenMetadata, categories, regAllTokens, allCreators,
                           totalTokensRegistered, totalCreators, totalCategories,
                           registrationFee, registryPaused, registryBalance>>
       ELSE UNCHANGED registryVars
    /\ UNCHANGED <<tokenVars, factoryVars, executing, appVars>>

setRegistrationFee(caller, newFee) ==
    /\ IF onlyRegistryOwner(caller) = OK
       THEN /\ registrationFee' = newFee
            /\ UNCHANGED <<tokenMetadata, creatorInfo, categories, regAllTokens,
                           allCreators, totalTokensRegistered, totalCreators,
                           totalCategories, registryPaused, registryBalance>>
       ELSE UNCHANGED registryVars
    /\ UNCHANGED <<tokenVars, factoryVars, executing, appVars>>

setRegistryPaused(caller, p) ==
    /\ IF onlyRegistryOwner(caller) = OK
       THEN /\ registryPaused' = p
            /\ UNCHANGED <<tokenMetadata, creatorInfo, categories, regAllTokens,
                           allCreators, totalTokensRegistered, totalCreators,
                           totalCategories, registrationFee, registryBalance>>
       ELSE UNCHANGED registryVars
    /\ UNCHANGED <<tokenVars, factoryVars, executing, appVars>>

setTokenVerification(caller, tokenAddress, verified) ==
    /\ /\ verified
             => creatorInfo[tokenMetadata[tokenAddress].creator].verifiedTokens
                   < MaxVerified
       /\ IF setTokenVerificationResult(caller, tokenAddress, verified) = OK
          THEN /\ tokenMetadata' = [tokenMetadata EXCEPT
                      ![tokenAddress].verified = verified]
               /\ creatorInfo' = [creatorInfo EXCEPT
                      ![tokenMetadata[tokenAddress].creator].verifiedTokens =
                          IF verified THEN @ + 1 ELSE @ - 1]
               /\ UNCHANGED <<categories, regAllTokens, allCreators,
                              totalTokensRegistered, totalCreators, totalCategories,
                              registrationFee, registryPaused, registryBalance>>
          ELSE UNCHANGED registryVars
    /\ UNCHANGED <<tokenVars, factoryVars, executing, appVars>>

setCreatorVerification(caller, creator, verified) ==
    /\ IF setCreatorVerificationResult(caller, creator) = OK
       THEN /\ creatorInfo' = [creatorInfo EXCEPT ![creator].verified = verified]
            /\ UNCHANGED <<tokenMetadata, categories, regAllTokens, allCreators,
                           totalTokensRegistered, totalCreators, totalCategories,
                           registrationFee, registryPaused, registryBalance>>
       ELSE UNCHANGED registryVars
    /\ UNCHANGED <<tokenVars, factoryVars, executing, appVars>>

\* TokenRegistry._createCategory
CategoryCreated(name, description) ==
    /\ categories' = [categories EXCEPT ![totalCategories] =
          [name |-> name, description |-> description, tokenCount |-> 0,
           active |-> TRUE]]
    /\ totalCategories' = totalCategories + 1

createCategory(caller, name, description) ==
    /\ /\ totalCategories < MaxCategories
       /\ IF onlyRegistryOwner(caller) = OK
          THEN /\ CategoryCreated(name, description)
               /\ UNCHANGED <<tokenMetadata, creatorInfo, regAllTokens, allCreators,
                              totalTokensRegistered, totalCreators,
                              registrationFee, registryPaused, registryBalance>>
          ELSE UNCHANGED registryVars
    /\ UNCHANGED <<tokenVars, factoryVars, executing, appVars>>

updateCategory(caller, categoryId, name, description, active) ==
    /\ IF updateCategoryResult(caller, categoryId) = OK
       THEN /\ categories' = [categories EXCEPT
                   ![categoryId].name = name,
                   ![categoryId].description = description,
                   ![categoryId].active = active]
            /\ UNCHANGED <<tokenMetadata, creatorInfo, regAllTokens, allCreators,
                           totalTokensRegistered, totalCreators, totalCategories,
                           registrationFee, registryPaused, registryBalance>>
       ELSE UNCHANGED registryVars
    /\ UNCHANGED <<tokenVars, factoryVars, executing, appVars>>

\* the recipient accepts the ETH
\* the ETH leaves the registry's balance and arrives at to, which is a user's
\* account, the factory, or the registry itself
registryWithdrawFees(caller, amount, to) ==
    /\ /\ to = FactoryAddress => factoryBalance + amount <= MaxBalance
       /\ IF registryWithdrawFeesResult(caller, amount, to) = OK
          THEN /\ registryBalance' = balanceAfterSend(registryBalance, amount, to,
                                                      RegistryAddress)
               /\ factoryBalance' = IF to = FactoryAddress
                                    THEN factoryBalance + amount
                                    ELSE factoryBalance
               /\ UNCHANGED <<tokenMetadata, creatorInfo, categories, regAllTokens,
                              allCreators, totalTokensRegistered, totalCreators,
                              totalCategories, registrationFee, registryPaused>>
          ELSE UNCHANGED <<registryVars, factoryBalance>>
    /\ UNCHANGED <<tokenVars, executing, appVars,
                   tokensByCreator, tokenInfo, facAllTokens,
                   totalTokensDeployed, maxTokensPerCreator, deploymentFee,
                   factoryPaused, deployedTokens>>

registryReceive(value) ==
    /\ /\ CanReceive(value)
       /\ registryBalance' = registryBalance + value
       /\ UNCHANGED <<tokenMetadata, creatorInfo, categories, regAllTokens,
                      allCreators, totalTokensRegistered, totalCreators,
                      totalCategories, registrationFee, registryPaused>>
    /\ UNCHANGED <<tokenVars, factoryVars, executing, appVars>>

\* the registry after its constructor, which creates the default categories
DefaultCategoryNames == <<"DeFi", "Gaming", "Infrastructure", "Social", "Other">>

InitRegistry ==
    /\ tokenMetadata = [t \in TokenAddresses |-> NoMetadata]
    /\ creatorInfo = [c \in Addresses |-> NoCreator]
    /\ categories = [k \in CategoryIds |->
          IF k < DefaultCategories
          THEN [name |-> DefaultCategoryNames[k + 1], description |-> "default",
                tokenCount |-> 0, active |-> TRUE]
          ELSE NoCategory]
    /\ regAllTokens = <<>>
    /\ allCreators = <<>>
    /\ totalTokensRegistered = 0
    /\ totalCreators = 0
    /\ totalCategories = DefaultCategories
    /\ registrationFee = InitialRegistrationFee
    /\ registryPaused = FALSE
    /\ registryBalance = 0

\* no TokenRegistry is deployed: its storage is empty
RegistryAbsent ==
    /\ tokenMetadata = <<>>
    /\ creatorInfo = <<>>
    /\ categories = <<>>
    /\ regAllTokens = <<>>
    /\ allCreators = <<>>
    /\ totalTokensRegistered = 0
    /\ totalCreators = 0
    /\ totalCategories = 0
    /\ registrationFee = 0
    /\ registryPaused = FALSE
    /\ registryBalance = 0

(***************************************************************************)
(* TokenFactory.                                                           *)
(*                                                                         *)
(* The n-th token the factory deploys gets the address n: the address of a *)
(* created contract is a function of the factory's address and nonce.      *)
(***************************************************************************)
\* the factory deploys until it has deployed MaxDeployed tokens
MaxDeployed == 2
DeployedAddresses == 1 .. MaxDeployed

\* the accounts that can hold a balance of a deployed token
Holders == Users \cup {FactoryAddress}

\* the constructor arguments
FactoryOwner == "alice"
InitialDeploymentFee == 0
InitialMaxTokensPerCreator == 2

TokenNameInputs == {"", "Name"}
TokenSymbolInputs == {"", "SYM"}
InitialSupplyInputs == {0, 1, UintMax}
MaxSupplyInputs == {0, MaxSupply}
FlagInputs == {[minting |-> TRUE, burning |-> TRUE, pausing |-> TRUE],
               [minting |-> FALSE, burning |-> TRUE, pausing |-> FALSE]}
MaxTokensInputs == 0 .. InitialMaxTokensPerCreator

NoTokenInfo ==
    [tokenAddress |-> Zero, name |-> "", symbol |-> "", initialSupply |-> 0,
     maxSupply |-> 0, creator |-> Zero, createdAt |-> 0, mintingEnabled |-> FALSE,
     burningEnabled |-> FALSE, pausingEnabled |-> FALSE]

\* no contract at the address
NoToken ==
    [owner |-> Zero, maxSupply |-> 0, totalSupply |-> 0,
     balances |-> [u \in Holders |-> 0], roles |-> [r \in Roles |-> {}],
     mintingEnabled |-> FALSE, burningEnabled |-> FALSE,
     pausingEnabled |-> FALSE, paused |-> FALSE]

\* mutant: the owner, the roles and the initial supply go to the constructor's
\* caller, the factory
newURBETokenOfDeployer(initialSupply, maxSupply, initialOwner, flags) ==
    [owner |-> FactoryAddress, maxSupply |-> maxSupply,
     totalSupply |-> initialSupply,
     balances |-> [u \in Holders |-> IF u = FactoryAddress THEN initialSupply ELSE 0],
     roles |-> [r \in Roles |-> {FactoryAddress}],
     mintingEnabled |-> flags.minting, burningEnabled |-> flags.burning,
     pausingEnabled |-> flags.pausing, paused |-> FALSE]

\* URBEToken's constructor: the token it leaves behind
newURBEToken(initialSupply, maxSupply, initialOwner, flags) ==
    [owner |-> initialOwner, maxSupply |-> maxSupply,
     totalSupply |-> initialSupply,
     balances |-> [u \in Holders |-> IF u = initialOwner THEN initialSupply ELSE 0],
     roles |-> [r \in Roles |-> {initialOwner}],
     mintingEnabled |-> flags.minting, burningEnabled |-> flags.burning,
     pausingEnabled |-> flags.pausing, paused |-> FALSE]

onlyFactoryOwner(caller) ==
    IF caller # FactoryOwner THEN "OwnableUnauthorizedAccount" ELSE OK

\* view functions
getTokenCountByCreator(c) == Len(tokensByCreator[c])
isTokenCreator(c) == Len(tokensByCreator[c]) > 0

\* TokenFactory.getTokensByCreatorPaginated: offset + limit is a checked
\* uint256 addition, made when offset < total
getTokensByCreatorPaginatedResult(creator, offset, limit) ==
    LET total == Len(tokensByCreator[creator])
    IN  IF offset >= total THEN OK
        ELSE IF offset + limit > UintMax THEN Panic
        ELSE OK

getTokensByCreatorPaginated(creator, offset, limit) ==
    LET allCreatorTokens == tokensByCreator[creator]
        total == Len(allCreatorTokens)
        endIndex == IF offset + limit > total THEN total ELSE offset + limit
        resultLength == endIndex - offset
    IN  IF offset >= total
        THEN [tokens |-> <<>>, total |-> total]
        ELSE [tokens |-> [i \in 1 .. resultLength |-> allCreatorTokens[offset + i]],
              total |-> total]

\* TokenFactory.getTokenByCreatorAtIndex
getTokenByCreatorAtIndexResult(creator, index) ==
    IF index >= Len(tokensByCreator[creator]) THEN "IndexOutOfBounds" ELSE OK

getTokenByCreatorAtIndex(creator, index) ==
    tokenInfo[tokensByCreator[creator][index + 1]]

\* mutant: the cap is checked against the tokens of tokenOwner
creatorTokenCountOfOwner(sender, tokenOwner) ==
    IF tokenOwner \in Users THEN Len(tokensByCreator[tokenOwner]) ELSE 0

\* TokenFactory._deployToken: creatorTokenCount
creatorTokenCount(sender, tokenOwner) == Len(tokensByCreator[sender])

\* mutant: the token is recorded under tokenOwner
recordedCreatorIsOwner(sender, tokenOwner) == tokenOwner

\* TokenFactory._deployToken: the creator a deployment is recorded under
recordedCreator(sender, tokenOwner) == sender

\* mutant: the validation checks without the fee check
deployTokenResultNoFee(sender, name, symbol, initialSupply, maxSupply, tokenOwner, value) ==
    IF nonReentrant(FactoryAddress) # OK THEN nonReentrant(FactoryAddress)
    ELSE IF factoryPaused THEN "FactoryPaused"
    ELSE IF name = "" THEN "EmptyName"
    ELSE IF symbol = "" THEN "EmptySymbol"
    ELSE IF initialSupply = 0 THEN "ZeroInitialSupply"
    ELSE IF maxSupply = 0 THEN "ZeroMaxSupply"
    ELSE IF initialSupply > maxSupply THEN "InitialSupplyExceedsMax"
    ELSE IF tokenOwner = Zero THEN "InvalidTokenAddress"
    ELSE IF creatorTokenCount(sender, tokenOwner) >= maxTokensPerCreator
        THEN "MaxTokensPerCreatorExceeded"
    ELSE OK

\* mutant: _deployToken with the FactoryPaused check after the other checks
deployTokenResultPauseLast(sender, name, symbol, initialSupply, maxSupply, tokenOwner, value) ==
    IF nonReentrant(FactoryAddress) # OK THEN nonReentrant(FactoryAddress)
    ELSE IF name = "" THEN "EmptyName"
    ELSE IF symbol = "" THEN "EmptySymbol"
    ELSE IF initialSupply = 0 THEN "ZeroInitialSupply"
    ELSE IF maxSupply = 0 THEN "ZeroMaxSupply"
    ELSE IF initialSupply > maxSupply THEN "InitialSupplyExceedsMax"
    ELSE IF tokenOwner = Zero THEN "InvalidTokenAddress"
    ELSE IF value < deploymentFee THEN "InsufficientDeploymentFee"
    ELSE IF creatorTokenCount(sender, tokenOwner) >= maxTokensPerCreator
        THEN "MaxTokensPerCreatorExceeded"
    ELSE IF factoryPaused THEN "FactoryPaused"
    ELSE OK

\* TokenFactory._deployToken: the validation checks
deployTokenResult(sender, name, symbol, initialSupply, maxSupply, tokenOwner, value) ==
    IF nonReentrant(FactoryAddress) # OK THEN nonReentrant(FactoryAddress)
    ELSE IF factoryPaused THEN "FactoryPaused"
    ELSE IF name = "" THEN "EmptyName"
    ELSE IF symbol = "" THEN "EmptySymbol"
    ELSE IF initialSupply = 0 THEN "ZeroInitialSupply"
    ELSE IF maxSupply = 0 THEN "ZeroMaxSupply"
    ELSE IF initialSupply > maxSupply THEN "InitialSupplyExceedsMax"
    ELSE IF tokenOwner = Zero THEN "InvalidTokenAddress"
    ELSE IF value < deploymentFee THEN "InsufficientDeploymentFee"
    ELSE IF creatorTokenCount(sender, tokenOwner) >= maxTokensPerCreator
        THEN "MaxTokensPerCreatorExceeded"
    ELSE OK

factoryWithdrawFeesResult(caller, amount, to) ==
    Then(onlyFactoryOwner(caller),
         IF to = Zero THEN "InvalidTokenAddress"
         ELSE IF amount > factoryBalance THEN "InsufficientDeploymentFee"
         ELSE IF ~acceptsETH(to) THEN "revert()"
         ELSE OK)

\* TokenFactory._deployToken, after the validation checks
Deployed(sender, name, symbol, initialSupply, maxSupply, tokenOwner, flags, value, now) ==
    LET tokenAddress == Len(facAllTokens) + 1
        creator == recordedCreator(sender, tokenOwner)
    IN  /\ deployedTokens' = [deployedTokens EXCEPT ![tokenAddress] =
              newURBEToken(initialSupply, maxSupply, tokenOwner, flags)]
        /\ tokenInfo' = [tokenInfo EXCEPT ![tokenAddress] =
              [tokenAddress |-> tokenAddress, name |-> name, symbol |-> symbol,
               initialSupply |-> initialSupply, maxSupply |-> maxSupply,
               creator |-> sender, createdAt |-> now,
               mintingEnabled |-> flags.minting,
               burningEnabled |-> flags.burning,
               pausingEnabled |-> flags.pausing]]
        /\ tokensByCreator' = [tokensByCreator EXCEPT
              ![creator] = Append(@, tokenAddress)]
        /\ facAllTokens' = Append(facAllTokens, tokenAddress)
        /\ totalTokensDeployed' = totalTokensDeployed + 1
        /\ factoryBalance' = factoryBalance + value
        /\ UNCHANGED <<maxTokensPerCreator, deploymentFee, factoryPaused>>

FactoryCanReceive(value) == factoryBalance + value <= MaxBalance

deployToken(sender, name, symbol, initialSupply, maxSupply, flags, value, now) ==
    /\ /\ Len(facAllTokens) < MaxDeployed
       /\ FactoryCanReceive(value)
       /\ IF deployTokenResult(sender, name, symbol, initialSupply, maxSupply,
                               sender, value) = OK
          THEN Deployed(sender, name, symbol, initialSupply, maxSupply, sender,
                        flags, value, now)
          ELSE UNCHANGED factoryVars
    /\ UNCHANGED <<tokenVars, registryVars, executing, appVars>>

deployTokenWithOwner(sender, name, symbol, initialSupply, maxSupply, tokenOwner, flags, value, now) ==
    /\ /\ Len(facAllTokens) < MaxDeployed
       /\ FactoryCanReceive(value)
       /\ IF deployTokenResult(sender, name, symbol, initialSupply, maxSupply,
                               tokenOwner, value) = OK
          THEN Deployed(sender, name, symbol, initialSupply, maxSupply, tokenOwner,
                        flags, value, now)
          ELSE UNCHANGED factoryVars
    /\ UNCHANGED <<tokenVars, registryVars, executing, appVars>>

setDeploymentFee(caller, newFee) ==
    /\ IF onlyFactoryOwner(caller) = OK
       THEN /\ deploymentFee' = newFee
            /\ UNCHANGED <<tokensByCreator, tokenInfo, facAllTokens,
                           totalTokensDeployed, maxTokensPerCreator, factoryPaused,
                           factoryBalance, deployedTokens>>
       ELSE UNCHANGED factoryVars
    /\ UNCHANGED <<tokenVars, registryVars, executing, appVars>>

setMaxTokensPerCreator(caller, newMax) ==
    /\ IF onlyFactoryOwner(caller) = OK
       THEN /\ maxTokensPerCreator' = newMax
            /\ UNCHANGED <<tokensByCreator, tokenInfo, facAllTokens,
                           totalTokensDeployed, deploymentFee, factoryPaused,
                           factoryBalance, deployedTokens>>
       ELSE UNCHANGED factoryVars
    /\ UNCHANGED <<tokenVars, registryVars, executing, appVars>>

setFactoryPaused(caller, p) ==
    /\ IF onlyFactoryOwner(caller) = OK
       THEN /\ factoryPaused' = p
            /\ UNCHANGED <<tokensByCreator, tokenInfo, facAllTokens,
                           totalTokensDeployed, maxTokensPerCreator, deploymentFee,
                           factoryBalance, deployedTokens>>
       ELSE UNCHANGED factoryVars
    /\ UNCHANGED <<tokenVars, registryVars, executing, appVars>>

\* the ETH leaves the factory's balance and arrives at to, which is a user's
\* account, the registry, or the factory itself
factoryWithdrawFees(caller, amount, to) ==
    /\ /\ to = RegistryAddress => CanReceive(amount)
       /\ IF factoryWithdrawFeesResult(caller, amount, to) = OK
          THEN /\ factoryBalance' = balanceAfterSend(factoryBalance, amount, to,
                                                     FactoryAddress)
               /\ registryBalance' = IF to = RegistryAddress
                                     THEN registryBalance + amount
                                     ELSE registryBalance
               /\ UNCHANGED <<tokensByCreator, tokenInfo, facAllTokens,
                              totalTokensDeployed, maxTokensPerCreator,
                              deploymentFee, factoryPaused, deployedTokens>>
          ELSE UNCHANGED <<factoryVars, registryBalance>>
    /\ UNCHANGED <<tokenVars, executing, appVars,
                   tokenMetadata, creatorInfo, categories, regAllTokens,
                   allCreators, totalTokensRegistered, totalCreators,
                   totalCategories, registrationFee, registryPaused>>

factoryReceive(value) ==
    /\ /\ FactoryCanReceive(value)
       /\ factoryBalance' = factoryBalance + value
       /\ UNCHANGED <<tokensByCreator, tokenInfo, facAllTokens, totalTokensDeployed,
                      maxTokensPerCreator, deploymentFee, factoryPaused,
                      deployedTokens>>
    /\ UNCHANGED <<tokenVars, registryVars, executing, appVars>>

\* the factory after its constructor
InitFactory ==
    /\ tokensByCreator = [c \in Users |-> <<>>]
    /\ tokenInfo = [t \in DeployedAddresses |-> NoTokenInfo]
    /\ facAllTokens = <<>>
    /\ totalTokensDeployed = 0
    /\ maxTokensPerCreator = InitialMaxTokensPerCreator
    /\ deploymentFee = InitialDeploymentFee
    /\ factoryPaused = FALSE
    /\ factoryBalance = 0
    /\ deployedTokens = [t \in DeployedAddresses |-> NoToken]

\* no TokenFactory is deployed: its storage is empty
FactoryAbsent ==
    /\ tokensByCreator = <<>>
    /\ tokenInfo = <<>>
    /\ facAllTokens = <<>>
    /\ totalTokensDeployed = 0
    /\ maxTokensPerCreator = 0
    /\ deploymentFee = 0
    /\ factoryPaused = FALSE
    /\ factoryBalance = 0
    /\ deployedTokens = <<>>

NextFactory ==
    \E caller \in Users :
        \/ \E name \in TokenNameInputs, symbol \in TokenSymbolInputs,
              initialSupply \in InitialSupplyInputs, maxSupply \in MaxSupplyInputs,
              flags \in FlagInputs, value \in MsgValues, now \in Timestamps :
              deployToken(caller, name, symbol, initialSupply, maxSupply, flags,
                          value, now)
        \/ \E name \in TokenNameInputs, symbol \in TokenSymbolInputs,
              initialSupply \in InitialSupplyInputs, maxSupply \in MaxSupplyInputs,
              tokenOwner \in Addresses, flags \in FlagInputs, value \in MsgValues,
              now \in Timestamps :
              deployTokenWithOwner(caller, name, symbol, initialSupply, maxSupply,
                                   tokenOwner, flags, value, now)
        \/ \E newFee \in Fees : setDeploymentFee(caller, newFee)
        \/ \E newMax \in MaxTokensInputs : setMaxTokensPerCreator(caller, newMax)
        \/ \E p \in BOOLEAN : setFactoryPaused(caller, p)
        \/ \E amount \in 0 .. MaxBalance, to \in Addresses :
              factoryWithdrawFees(caller, amount, to)
        \/ \E value \in MsgValues : factoryReceive(value)

(***************************************************************************)
(* The calls on the registry, grouped by what they write.  A specification *)
(* takes the groups that write what its claims read.  createCategory and   *)
(* updateCategory are in neither specification below: every registration   *)
(* names a default category or an id that is not a category.               *)
(***************************************************************************)
\* registerToken and registerTokenForCreator
RegistrationCalls(metas, values) ==
    \E caller \in Users, t \in TokenAddresses, meta \in metas,
       k \in CategoryInputs, tags \in TagInputs, value \in values,
       supply \in TokenSupplies, now \in Timestamps :
        \/ registerToken(caller, t, meta, k, tags, value, supply, now)
        \/ \E creator \in Addresses :
              registerTokenForCreator(caller, t, meta, k, tags, creator, value,
                                      supply, now)

MetadataCalls ==
    \E caller \in Users, t \in TokenAddresses, meta \in MetaInputs :
        updateTokenMetadata(caller, t, meta)

CreatorCalls ==
    \E caller \in Users :
        \/ \E name \in NameInputs, description \in DescriptionInputs,
              now \in Timestamps : registerCreator(caller, name, description, now)
        \/ \E name \in NameInputs, description \in DescriptionInputs,
              now \in Timestamps : updateCreatorInfo(caller, name, description, now)
        \/ \E creator \in Addresses, verified \in BOOLEAN :
              setCreatorVerification(caller, creator, verified)

VerificationCalls ==
    \E caller \in Users, t \in TokenAddresses, verified \in BOOLEAN :
        setTokenVerification(caller, t, verified)

\* the fee, the pause flag and the ETH the registry holds
FeeCalls ==
    \E caller \in Users :
        \/ \E newFee \in Fees : setRegistrationFee(caller, newFee)
        \/ \E p \in BOOLEAN : setRegistryPaused(caller, p)
        \/ \E amount \in 0 .. MaxBalance, to \in Addresses :
              registryWithdrawFees(caller, amount, to)
        \/ \E value \in MsgValues : registryReceive(value)

\* a URBEToken on its own
InitTokenAlone == InitToken /\ RegistryAbsent /\ FactoryAbsent /\ executing = NoCall /\ AppAbsent

SpecToken == InitTokenAlone /\ [][NextToken]_vars

\* a TokenFactory and the tokens it deploys
InitFactoryAlone == InitFactory /\ TokenAbsent /\ RegistryAbsent /\ executing = NoCall /\ AppAbsent

SpecFactory == InitFactoryAlone /\ [][NextFactory]_vars

\* a TokenRegistry and the tokens TokenName, TokenSymbol and TokenSupplies
\* describe
InitRegistryAlone == InitRegistry /\ TokenAbsent /\ FactoryAbsent /\ executing = NoCall /\ AppAbsent

FirstMeta == [description |-> "d1", website |-> "w1", logo |-> "l1"]

\* every call that writes creatorInfo, allCreators or totalCreators
NextRegistry ==
    \/ RegistrationCalls({FirstMeta}, {0})
    \/ CreatorCalls
    \/ VerificationCalls

SpecRegistry == InitRegistryAlone /\ [][NextRegistry]_vars

\* every call that writes tokenMetadata, allTokens or totalTokensRegistered,
\* or what a registration reads
NextRegistryTokens ==
    \/ RegistrationCalls({FirstMeta}, MsgValues)
    \/ MetadataCalls
    \/ VerificationCalls
    \/ FeeCalls

SpecRegistryTokens == InitRegistryAlone /\ [][NextRegistryTokens]_vars

(***************************************************************************)
(* Claims about TokenRegistry: C4, C5 and C8 under SpecRegistry, C6 and C7 *)
(* under SpecRegistryTokens.                                               *)
(***************************************************************************)
NoDuplicates(seq) == \A i, j \in 1 .. Len(seq) : seq[i] = seq[j] => i = j
RegisteredTokens == {t \in TokenAddresses : tokenMetadata[t].active}

\* C4: for every address c, creatorInfo[c].totalTokens is the number of
\* registered tokens whose creator is c.
C4_CreatorTokenCounter ==
    \A c \in Addresses : creatorInfo[c].totalTokens = Len(getTokensByCreator(c))

\* C5: for every address c, creatorInfo[c].verifiedTokens is the number of
\* registered tokens of creator c whose verified flag is set.
C5_VerifiedTokenCounter ==
    \A c \in Addresses :
        creatorInfo[c].verifiedTokens =
            Cardinality({t \in RegisteredTokens :
                            /\ tokenMetadata[t].creator = c
                            /\ tokenMetadata[t].verified})

\* C6: the record of a registered token changes only by updateTokenMetadata
\* of its creator (description, website, logo) and by setTokenVerification of
\* the registry owner (verified); every other field keeps its value, any other
\* caller of updateTokenMetadata gets OnlyCreator, and a new record is not
\* verified.
C6_OnlyCreatorUpdates ==
    \A c \in Users, t \in TokenAddresses :
        /\ (tokenMetadata[t].creator # c \/ ~tokenMetadata[t].active)
              => updateTokenMetadataResult(c, t) = "OnlyCreator"
        /\ \A v \in BOOLEAN :
              setTokenVerificationResult(c, t, v) = OK => c = RegistryOwner

C6_RecordStep ==
    \A t \in TokenAddresses :
        LET old == tokenMetadata[t]
            new == tokenMetadata'[t]
        IN  /\ old.active =>
                /\ new.tokenAddress = old.tokenAddress
                /\ new.name = old.name
                /\ new.symbol = old.symbol
                /\ new.decimals = old.decimals
                /\ new.totalSupply = old.totalSupply
                /\ new.maxSupply = old.maxSupply
                /\ new.creator = old.creator
                /\ new.registeredAt = old.registeredAt
                /\ new.category = old.category
                /\ new.tags = old.tags
                /\ new.active = old.active
                /\ <<new.description, new.website, new.logo>>
                      # <<old.description, old.website, old.logo>>
                   => /\ new.verified = old.verified
                      /\ \E meta \in MetaInputs :
                            updateTokenMetadata(old.creator, t, meta)
                /\ new.verified # old.verified
                   => /\ <<new.description, new.website, new.logo>>
                            = <<old.description, old.website, old.logo>>
                      /\ setTokenVerification(RegistryOwner, t, new.verified)
            /\ (~old.active /\ new.active) => ~new.verified

C6_MetadataMutationRights == []C6_OnlyCreatorUpdates /\ [][C6_RecordStep]_vars

\* a token registered for bob whose texts were updated and that was verified
C6_Witness ==
    \E t \in Tokens :
        /\ tokenMetadata[t].active
        /\ tokenMetadata[t].creator = "bob"
        /\ tokenMetadata[t].verified
        /\ tokenMetadata[t].description = "d2"
        /\ tokenMetadata[t].category = 0

\* C7: a token is registered at most once; a second registration is refused,
\* with RegistryPaused while the registry is paused and with
\* TokenAlreadyRegistered otherwise; allTokens has no duplicate and its length is
\* totalTokensRegistered and the number of registered tokens; a registered
\* token stays registered, with the same creator.
C7_RegisteredOnce ==
    /\ NoDuplicates(regAllTokens)
    /\ totalTokensRegistered = Len(regAllTokens)
    /\ Len(regAllTokens) = Cardinality(RegisteredTokens)
    /\ RegisteredTokens = {regAllTokens[i] : i \in 1 .. Len(regAllTokens)}
    /\ \A t \in RegisteredTokens, k \in CategoryInputs, value \in MsgValues :
          registerTokenResult(t, k, value) =
              IF registryPaused THEN "RegistryPaused" ELSE "TokenAlreadyRegistered"

\* C7 as stated: a second registration is refused with TokenAlreadyRegistered
\* in every state
C7_AsStated ==
    \A t \in RegisteredTokens, k \in CategoryInputs, value \in MsgValues :
        registerTokenResult(t, k, value) = "TokenAlreadyRegistered"

C7_StaysRegistered ==
    \A t \in TokenAddresses :
        tokenMetadata[t].active
           => /\ tokenMetadata'[t].active
              /\ tokenMetadata'[t].creator = tokenMetadata[t].creator

C7_SingleRegistration == []C7_RegisteredOnce /\ [][C7_StaysRegistered]_vars

\* both tokens are registered, for different creators, and the registry is
\* paused
C7_Witness ==
    /\ registryPaused
    /\ Len(regAllTokens) = 2
    /\ tokenMetadata["t1"].creator # tokenMetadata["t2"].creator

\* C8: totalCreators is the length of allCreators and the number of registered
\* creators, allCreators has no duplicate, and registerCreator of an existing
\* creator keeps its counters and its verified flag.
C8_CreatorListConsistent ==
    /\ totalCreators = Len(allCreators)
    /\ Len(allCreators) = Cardinality({c \in Addresses : isCreatorRegistered(c)})
    /\ NoDuplicates(allCreators)

(***************************************************************************)
(* Claims about TokenFactory, under SpecFactory.                           *)
(***************************************************************************)
FactoryTokens == {facAllTokens[i] : i \in 1 .. Len(facAllTokens)}
Occurrences(seq, x) == Cardinality({i \in 1 .. Len(seq) : seq[i] = x})

RECURSIVE ListedTokens(_)
ListedTokens(cs) ==
    IF cs = {} THEN 0
    ELSE LET c == CHOOSE x \in cs : TRUE
         IN  Len(tokensByCreator[c]) + ListedTokens(cs \ {c})

\* C9: totalTokensDeployed is the length of allTokens and the sum of the
\* lengths of the creators' lists; every token of allTokens is there once and
\* is once in the list of tokenInfo[t].creator and in no other list;
\* tokenInfo[t].tokenAddress is t; isTokenCreator(c) holds exactly for the
\* senders of the deployments.
C9_Consistent ==
    /\ totalTokensDeployed = Len(facAllTokens)
    /\ Len(facAllTokens) = ListedTokens(Users)
    /\ NoDuplicates(facAllTokens)
    /\ \A t \in FactoryTokens :
          /\ tokenInfo[t].tokenAddress = t
          /\ tokenInfo[t].creator \in Users
          /\ \A c \in Users :
                Occurrences(tokensByCreator[c], t) =
                    IF c = tokenInfo[t].creator THEN 1 ELSE 0
    /\ \A c \in Users :
          \A i \in 1 .. Len(tokensByCreator[c]) :
              tokensByCreator[c][i] \in FactoryTokens
    /\ \A c \in Users :
          isTokenCreator(c) <=> \E t \in FactoryTokens : tokenInfo[t].creator = c

\* a deployment is recorded under its sender, whoever owns the token
C9_RecordedUnderSender ==
    Len(facAllTokens') > Len(facAllTokens)
    => \A s \in Users, tokenOwner \in Users, name \in TokenNameInputs,
          symbol \in TokenSymbolInputs, initialSupply \in InitialSupplyInputs,
          maxSupply \in MaxSupplyInputs, flags \in FlagInputs,
          value \in MsgValues, now \in Timestamps :
           /\ tokenOwner # s
           /\ deployTokenWithOwner(s, name, symbol, initialSupply, maxSupply,
                                   tokenOwner, flags, value, now)
           => /\ isTokenCreator(s)'
              /\ getTokenCountByCreator(s)' = getTokenCountByCreator(s) + 1
              /\ getTokenCountByCreator(tokenOwner)'
                    = getTokenCountByCreator(tokenOwner)

C9_BookkeepingConsistency == []C9_Consistent /\ [][C9_RecordedUnderSender]_vars

\* MaxDeployed tokens deployed, by both users, one of them for the other user
C9_Witness ==
    /\ Len(facAllTokens) = MaxDeployed
    /\ \A c \in Users : isTokenCreator(c)
    /\ \E t \in FactoryTokens : deployedTokens[t].owner # tokenInfo[t].creator

PassesOtherValidations(name, symbol, initialSupply, maxSupply, tokenOwner, value) ==
    /\ ~factoryPaused
    /\ name # ""
    /\ symbol # ""
    /\ initialSupply # 0
    /\ maxSupply # 0
    /\ initialSupply <= maxSupply
    /\ tokenOwner # Zero
    /\ value >= deploymentFee

\* C10: a deployment by s that passes the other validations is refused with
\* MaxTokensPerCreatorExceeded exactly when s has maxTokensPerCreator tokens or
\* more, whatever tokenOwner has.
C10_RefusedIffSenderAtCap ==
    \A s \in Users, name \in TokenNameInputs, symbol \in TokenSymbolInputs,
       initialSupply \in InitialSupplyInputs, maxSupply \in MaxSupplyInputs,
       tokenOwner \in Addresses, value \in MsgValues :
        PassesOtherValidations(name, symbol, initialSupply, maxSupply,
                               tokenOwner, value)
        => /\ deployTokenResult(s, name, symbol, initialSupply, maxSupply,
                                tokenOwner, value)
                 \in {OK, "MaxTokensPerCreatorExceeded"}
           /\ deployTokenResult(s, name, symbol, initialSupply, maxSupply,
                                tokenOwner, value) = "MaxTokensPerCreatorExceeded"
                 <=> Len(tokensByCreator[s]) >= maxTokensPerCreator

\* a token is deployed only for a sender below the cap
C10_DeployedBelowCap ==
    Len(facAllTokens') > Len(facAllTokens)
    => LET t == facAllTokens'[Len(facAllTokens')]
       IN  Len(tokensByCreator[tokenInfo'[t].creator]) < maxTokensPerCreator

C10_CapAtDeployment == []C10_RefusedIffSenderAtCap /\ [][C10_DeployedBelowCap]_vars

\* the factory accepts deployments, one user is at the cap and the other is not
C10_Witness ==
    /\ ~factoryPaused
    /\ maxTokensPerCreator > 0
    /\ \E s \in Users, o \in Users :
          /\ Len(tokensByCreator[s]) >= maxTokensPerCreator
          /\ Len(tokensByCreator[o]) < maxTokensPerCreator

\* C11: deployTokenWithOwner(..., tokenOwner, ...) sent by s deploys a token
\* whose owner is tokenOwner, whose initial supply is all with tokenOwner and
\* whose four roles are held by tokenOwner alone, so that the factory, and s
\* when it is not tokenOwner, hold no role and no balance; the factory records
\* s as tokenInfo.creator and appends the token to tokensByCreator[s].
C11_OwnerHoldsAll ==
    \A t \in FactoryTokens :
        LET token == deployedTokens[t]
        IN  /\ token.owner \in Users
            /\ token.totalSupply = tokenInfo[t].initialSupply
            /\ token.balances[token.owner] = token.totalSupply
            /\ \A h \in Holders \ {token.owner} : token.balances[h] = 0
            /\ \A r \in Roles : token.roles[r] = {token.owner}
            /\ tokenInfo[t].creator \in Users

C11_DeployedForOwner ==
    Len(facAllTokens') > Len(facAllTokens)
    => \A s \in Users, tokenOwner \in Users, name \in TokenNameInputs,
          symbol \in TokenSymbolInputs, initialSupply \in InitialSupplyInputs,
          maxSupply \in MaxSupplyInputs, flags \in FlagInputs,
          value \in MsgValues, now \in Timestamps :
           deployTokenWithOwner(s, name, symbol, initialSupply, maxSupply,
                                tokenOwner, flags, value, now)
           => LET t == facAllTokens'[Len(facAllTokens')]
              IN  /\ deployedTokens'[t].owner = tokenOwner
                  /\ deployedTokens'[t].balances[tokenOwner] = initialSupply
                  /\ tokenInfo'[t].creator = s
                  /\ tokensByCreator'[s] = Append(tokensByCreator[s], t)
                  /\ s # tokenOwner
                     => /\ deployedTokens'[t].balances[s] = 0
                        /\ \A r \in Roles : s \notin deployedTokens'[t].roles[r]

C11_CreatorVersusOwner == []C11_OwnerHoldsAll /\ [][C11_DeployedForOwner]_vars

\* bob deployed a token for alice: alice owns it and holds its supply, bob is
\* its recorded creator
C11_Witness ==
    \E t \in FactoryTokens :
        /\ tokenInfo[t].creator = "bob"
        /\ deployedTokens[t].owner = "alice"
        /\ deployedTokens[t].balances["alice"] > 0
        /\ tokensByCreator["bob"] # <<>>
        /\ tokensByCreator["alice"] = <<>>

(***************************************************************************)
(* A TokenFactory and calls on the tokens it deployed.  deployedTokens[t]  *)
(* is the storage of the token at address t; a call on that token reads    *)
(* and writes this record and nothing of the factory.                      *)
(***************************************************************************)
\* calls are made on the tokens at the addresses 1 .. MaxOperated
MaxOperated == 1

\* mutant: the factory's record follows the token's flags and supply
onDeployedTokenSynced(t, token) ==
    /\ /\ t \in FactoryTokens
       /\ t <= MaxOperated
       /\ deployedTokens' = [deployedTokens EXCEPT ![t] = token]
       /\ tokenInfo' = [tokenInfo EXCEPT
             ![t].mintingEnabled = token.mintingEnabled,
             ![t].burningEnabled = token.burningEnabled,
             ![t].pausingEnabled = token.pausingEnabled,
             ![t].initialSupply = token.totalSupply]
       /\ UNCHANGED <<tokensByCreator, facAllTokens, totalTokensDeployed,
                      maxTokensPerCreator, deploymentFee, factoryPaused,
                      factoryBalance>>
    /\ UNCHANGED <<tokenVars, registryVars, executing, appVars>>

\* a call on the deployed token t that leaves its storage as token
onDeployedToken(t, token) ==
    /\ /\ t \in FactoryTokens
       /\ t <= MaxOperated
       /\ deployedTokens' = [deployedTokens EXCEPT ![t] = token]
       /\ UNCHANGED <<tokensByCreator, tokenInfo, facAllTokens, totalTokensDeployed,
                      maxTokensPerCreator, deploymentFee, factoryPaused,
                      factoryBalance>>
    /\ UNCHANGED <<tokenVars, registryVars, executing, appVars>>

deployedToggleMinting(t, caller, enabled) ==
    LET token == deployedTokens[t]
    IN  onDeployedToken(t, IF caller # token.owner THEN token
                           ELSE [token EXCEPT !.mintingEnabled = enabled])

deployedToggleBurning(t, caller, enabled) ==
    LET token == deployedTokens[t]
    IN  onDeployedToken(t, IF caller # token.owner THEN token
                           ELSE [token EXCEPT !.burningEnabled = enabled])

deployedTogglePausing(t, caller, enabled) ==
    LET token == deployedTokens[t]
    IN  onDeployedToken(t, IF caller # token.owner THEN token
                           ELSE [token EXCEPT !.pausingEnabled = enabled])

deployedMint(t, caller, to, amount) ==
    LET token == deployedTokens[t]
        reverts == \/ caller # token.owner
                   \/ token.paused
                   \/ ~token.mintingEnabled
                   \/ to = Zero
                   \/ amount = 0
                   \/ token.totalSupply + amount > token.maxSupply
    IN  onDeployedToken(t, IF reverts THEN token
                           ELSE [token EXCEPT
                                    !.totalSupply = @ + amount,
                                    !.balances[to] = @ + amount])

deployedBurn(t, caller, amount) ==
    LET token == deployedTokens[t]
        reverts == \/ token.paused
                   \/ ~token.burningEnabled
                   \/ amount = 0
                   \/ token.balances[caller] < amount
    IN  onDeployedToken(t, IF reverts THEN token
                           ELSE [token EXCEPT
                                    !.totalSupply = @ - amount,
                                    !.balances[caller] = @ - amount])

AllEnabled == [minting |-> TRUE, burning |-> TRUE, pausing |-> TRUE]

\* deployments that pass the validations when the factory is not paused, the
\* fee is 0 and the sender is below the cap, the setters of the factory, and
\* the calls on its tokens
NextFactoryTokens ==
    \E caller \in Users :
        \/ \E now \in Timestamps :
              deployToken(caller, "Name", "SYM", 1, MaxSupply, AllEnabled, 0, now)
        \/ \E newFee \in Fees : setDeploymentFee(caller, newFee)
        \/ \E newMax \in MaxTokensInputs : setMaxTokensPerCreator(caller, newMax)
        \/ \E p \in BOOLEAN : setFactoryPaused(caller, p)
        \/ \E t \in DeployedAddresses, enabled \in BOOLEAN :
              deployedToggleMinting(t, caller, enabled)
        \/ \E t \in DeployedAddresses, enabled \in BOOLEAN :
              deployedToggleBurning(t, caller, enabled)
        \/ \E t \in DeployedAddresses, enabled \in BOOLEAN :
              deployedTogglePausing(t, caller, enabled)
        \/ \E t \in DeployedAddresses, amount \in 1 .. MaxSupply :
              deployedMint(t, caller, caller, amount)
        \/ \E t \in DeployedAddresses, amount \in 1 .. MaxSupply :
              deployedBurn(t, caller, amount)

SpecFactoryTokens == InitFactoryAlone /\ [][NextFactoryTokens]_vars

(***************************************************************************)
(* Claims about the factory's records, under SpecFactoryTokens.            *)
(***************************************************************************)
IsPrefix(old, new) ==
    /\ Len(old) <= Len(new)
    /\ \A i \in 1 .. Len(old) : new[i] = old[i]

\* C12: after the deployment of t no step changes tokenInfo[t], and allTokens
\* and every tokensByCreator[c] only grow at their end, whatever is called on
\* the factory or on a deployed token: toggleMinting, toggleBurning,
\* togglePausing, mint and burn on t leave tokenInfo[t] as the deployment wrote
\* it.
C12_RecordsStep ==
    /\ \A t \in FactoryTokens : tokenInfo'[t] = tokenInfo[t]
    /\ IsPrefix(facAllTokens, facAllTokens')
    /\ \A c \in Users : IsPrefix(tokensByCreator[c], tokensByCreator'[c])

C12_RecordsAppendOnly == [][C12_RecordsStep]_vars

\* two tokens are deployed; on the first, minting was switched off and the
\* supply is no longer the initial supply, and tokenInfo still has the values
\* of the deployment
C12_Witness ==
    /\ Len(facAllTokens) = MaxDeployed
    /\ \E t \in FactoryTokens :
          /\ ~deployedTokens[t].mintingEnabled
          /\ tokenInfo[t].mintingEnabled
          /\ deployedTokens[t].totalSupply # tokenInfo[t].initialSupply

(***************************************************************************)
(* Claims about the factory's fees, under SpecFactory.                     *)
(***************************************************************************)
\* C13: a deployment succeeds only with msg.value >= deploymentFee; one that
\* passes the validations made before the fee check and sends less is refused
\* with InsufficientDeploymentFee and records no token; a successful one adds
\* the whole msg.value to the factory's balance; any other change of the
\* balance is a receive, which adds what was sent, or a withdrawFees of the
\* owner, which takes amount away: the balance is what was received less what
\* was withdrawn.
C13_FeeRequired ==
    \A s \in Users, name \in TokenNameInputs, symbol \in TokenSymbolInputs,
       initialSupply \in InitialSupplyInputs, maxSupply \in MaxSupplyInputs,
       tokenOwner \in Addresses, value \in MsgValues :
        LET result == deployTokenResult(s, name, symbol, initialSupply, maxSupply,
                                        tokenOwner, value)
        IN  /\ result = OK => value >= deploymentFee
            /\ /\ ~factoryPaused
               /\ name # ""
               /\ symbol # ""
               /\ initialSupply # 0
               /\ maxSupply # 0
               /\ initialSupply <= maxSupply
               /\ tokenOwner # Zero
               /\ value < deploymentFee
               => result = "InsufficientDeploymentFee"

C13_BalanceStep ==
    /\ Len(facAllTokens') > Len(facAllTokens)
       => \A s \in Users, name \in TokenNameInputs, symbol \in TokenSymbolInputs,
             initialSupply \in InitialSupplyInputs, maxSupply \in MaxSupplyInputs,
             tokenOwner \in Addresses, flags \in FlagInputs, value \in MsgValues,
             now \in Timestamps :
              deployTokenWithOwner(s, name, symbol, initialSupply, maxSupply,
                                   tokenOwner, flags, value, now)
              => /\ value >= deploymentFee
                 /\ factoryBalance' = factoryBalance + value
    /\ Len(facAllTokens') = Len(facAllTokens)
       => /\ tokenInfo' = tokenInfo
          /\ factoryBalance' > factoryBalance
             => factoryReceive(factoryBalance' - factoryBalance)
          /\ factoryBalance' < factoryBalance
             => \E to \in Addresses :
                   factoryWithdrawFees(FactoryOwner, factoryBalance - factoryBalance',
                                       to)

InitFees == InitFactory /\ InitRegistry /\ TokenAbsent /\ executing = NoCall /\ AppAbsent

\* a user's account, the zero address, the two contracts and a URBEToken
Recipients == Addresses \cup {FactoryAddress, RegistryAddress, "t1"}

\* the amounts up to one more than a contract can hold
Amounts == 0 .. MaxBalance + 1

NextFees ==
    \E caller \in Users :
        \/ \E value \in MsgValues, now \in Timestamps :
              deployToken(caller, "Name", "SYM", 1, MaxSupply, AllEnabled, value, now)
        \/ \E value \in MsgValues, tags \in TagInputs, supply \in TokenSupplies,
              now \in Timestamps :
              registerToken(caller, "t1", FirstMeta, 0, tags, value, supply, now)
        \/ \E newFee \in Fees : setDeploymentFee(caller, newFee)
        \/ \E newFee \in Fees : setRegistrationFee(caller, newFee)
        \/ \E value \in MsgValues : factoryReceive(value)
        \/ \E value \in MsgValues : registryReceive(value)
        \/ \E amount \in Amounts, to \in Recipients :
              factoryWithdrawFees(caller, amount, to)
        \/ \E amount \in Amounts, to \in Recipients :
              registryWithdrawFees(caller, amount, to)

SpecFees == InitFees /\ [][NextFees]_vars

(***************************************************************************)
(* Claims about withdrawFees, under SpecFees.                              *)
(***************************************************************************)
\* C14: withdrawFees(amount, to) of the factory and of the registry succeeds
\* only when the caller is the owner, to is not the zero address and amount is
\* at most the contract's balance.  For the owner a zero recipient is refused
\* with InvalidTokenAddress (factory) or InvalidCreatorAddress (registry),
\* whatever the amount, and an amount above the balance with
\* InsufficientDeploymentFee or InsufficientRegistrationFee.  A successful call
\* takes amount from the contract's balance and adds it to the balance of to;
\* when to is the contract itself its balance stays as it is.  A failed call
\* changes no balance.
C14_Checks ==
    \A caller \in Users, amount \in Amounts, to \in Recipients :
        /\ factoryWithdrawFeesResult(caller, amount, to) = OK
           => caller = FactoryOwner /\ to # Zero /\ amount <= factoryBalance
        /\ registryWithdrawFeesResult(caller, amount, to) = OK
           => caller = RegistryOwner /\ to # Zero /\ amount <= registryBalance
        /\ caller # FactoryOwner
           => factoryWithdrawFeesResult(caller, amount, to) # OK
        /\ caller # RegistryOwner
           => registryWithdrawFeesResult(caller, amount, to) # OK
        /\ to = Zero
           => /\ factoryWithdrawFeesResult(FactoryOwner, amount, to)
                    = "InvalidTokenAddress"
              /\ registryWithdrawFeesResult(RegistryOwner, amount, to)
                    = "InvalidCreatorAddress"
        /\ to # Zero /\ amount > factoryBalance
           => factoryWithdrawFeesResult(FactoryOwner, amount, to)
                 = "InsufficientDeploymentFee"
        /\ to # Zero /\ amount > registryBalance
           => registryWithdrawFeesResult(RegistryOwner, amount, to)
                 = "InsufficientRegistrationFee"

C14_BalancesStep ==
    \A caller \in Users, amount \in Amounts, to \in Recipients :
        /\ factoryWithdrawFees(caller, amount, to)
           => IF factoryWithdrawFeesResult(caller, amount, to) = OK
              THEN /\ factoryBalance' = IF to = FactoryAddress THEN factoryBalance
                                        ELSE factoryBalance - amount
                   /\ registryBalance' = IF to = RegistryAddress
                                         THEN registryBalance + amount
                                         ELSE registryBalance
              ELSE UNCHANGED <<factoryBalance, registryBalance>>
        /\ registryWithdrawFees(caller, amount, to)
           => IF registryWithdrawFeesResult(caller, amount, to) = OK
              THEN /\ registryBalance' = IF to = RegistryAddress THEN registryBalance
                                         ELSE registryBalance - amount
                   /\ factoryBalance' = IF to = FactoryAddress
                                        THEN factoryBalance + amount
                                        ELSE factoryBalance
              ELSE UNCHANGED <<factoryBalance, registryBalance>>

C14_WithdrawFees == []C14_Checks /\ [][C14_BalancesStep]_vars

\* C14 as stated: every successful withdrawFees takes amount from the
\* contract's balance
C14_AsStated ==
    \A amount \in Amounts, to \in Recipients :
        /\ factoryWithdrawFeesResult(FactoryOwner, amount, to) = OK
           => balanceAfterSend(factoryBalance, amount, to, FactoryAddress)
                 = factoryBalance - amount
        /\ registryWithdrawFeesResult(RegistryOwner, amount, to) = OK
           => balanceAfterSend(registryBalance, amount, to, RegistryAddress)
                 = registryBalance - amount

\* both fees are 1, a token was deployed and one was registered, and the ETH
\* is with the registry
C14_Witness ==
    /\ deploymentFee = 1
    /\ registrationFee = 1
    /\ Len(facAllTokens) > 0
    /\ Len(regAllTokens) > 0
    /\ factoryBalance = 0
    /\ registryBalance = MaxBalance

(***************************************************************************)
(* Calls that hand control to another contract.  withdrawFees sends ETH    *)
(* with to.call{value: amount}(""), and _registerToken reads the token     *)
(* with tokenAddress.call(...): the called account runs its own code       *)
(* before it returns, and that code can call the factory and the registry  *)
(* from any contract's address.  Each of the two functions is one step up  *)
(* to its call and one step from the return of the call; the calls that    *)
(* arrive in between are the other actions, taken while executing names    *)
(* the waiting contract.  A call that fails reverts the function and all   *)
(* that happened within it, and leaves no step.                            *)
(***************************************************************************)
\* TokenFactory.withdrawFees up to the call that sends the ETH
factoryWithdrawFeesCall(caller, amount, to) ==
    /\ /\ idle
       /\ factoryWithdrawFeesResult(caller, amount, to) = OK
       /\ factoryBalance' = balanceAfterSend(factoryBalance, amount, to,
                                             FactoryAddress)
       /\ executing' = [contract |-> FactoryAddress, function |-> "withdrawFees",
                        entered |-> FALSE, args |-> [amount |-> amount, to |-> to]]
       /\ UNCHANGED <<tokensByCreator, tokenInfo, facAllTokens, totalTokensDeployed,
                      maxTokensPerCreator, deploymentFee, factoryPaused,
                      deployedTokens>>
    /\ UNCHANGED <<tokenVars, registryVars, appVars>>

\* TokenFactory.withdrawFees from the return of the call: the event
factoryWithdrawFeesReturn ==
    /\ /\ executing.contract = FactoryAddress
       /\ executing.function = "withdrawFees"
       /\ executing' = NoCall
    /\ UNCHANGED <<tokenVars, registryVars, factoryVars, appVars>>

\* TokenRegistry.registerToken up to the first call to the token: nonReentrant
\* and the checks of _registerToken; msg.value is with the registry
registerTokenCall(caller, tokenAddress, meta, category, tags, value, supply, now) ==
    /\ /\ idle
       /\ CanReceive(value)
       /\ registerTokenResult(tokenAddress, category, value) = OK
       /\ registryBalance' = registryBalance + value
       /\ executing' = [contract |-> RegistryAddress, function |-> "registerToken",
                        entered |-> TRUE,
                        args |-> [tokenAddress |-> tokenAddress, meta |-> meta,
                                  category |-> category, tags |-> tags,
                                  creator |-> caller, supply |-> supply,
                                  now |-> now]]
       /\ UNCHANGED <<tokenMetadata, creatorInfo, categories, regAllTokens,
                      allCreators, totalTokensRegistered, totalCreators,
                      totalCategories, registrationFee, registryPaused>>
    /\ UNCHANGED <<tokenVars, factoryVars, appVars>>

\* TokenRegistry.registerToken from the return of the last call to the token:
\* the record is stored and the ReentrancyGuard is released
registerTokenReturn ==
    /\ /\ executing.contract = RegistryAddress
       /\ executing.function = "registerToken"
       /\ LET a == executing.args
          IN  Registered(a.tokenAddress, a.meta, a.category, a.tags, a.creator, 0,
                         a.supply, a.now)
       /\ executing' = NoCall
    /\ UNCHANGED <<tokenVars, factoryVars, appVars>>

\* the two functions with their calls, and the calls that can arrive before
\* the return
NextReentrancy ==
    \/ \E caller \in Users, amount \in 0 .. MaxBalance, to \in Users :
          factoryWithdrawFeesCall(caller, amount, to)
    \/ factoryWithdrawFeesReturn
    \/ \E caller \in Users, t \in Tokens, tags \in TagInputs, value \in MsgValues,
          supply \in TokenSupplies, now \in Timestamps :
          registerTokenCall(caller, t, FirstMeta, 0, tags, value, supply, now)
    \/ registerTokenReturn
    \/ \E caller \in Users, now \in Timestamps :
          deployToken(caller, "Name", "SYM", 1, MaxSupply, AllEnabled, 0, now)
    \/ \E caller \in Users, t \in Tokens, tags \in TagInputs,
          supply \in TokenSupplies, now \in Timestamps :
          registerToken(caller, t, FirstMeta, 0, tags, 0, supply, now)
    \/ \E caller \in Users, now \in Timestamps :
          registerCreator(caller, "n1", "d1", now)
    \/ \E value \in MsgValues : factoryReceive(value)
    \/ \E caller \in Users, amount \in 0 .. MaxBalance, to \in Users :
          factoryWithdrawFees(caller, amount, to)

SpecReentrancy == InitFees /\ [][NextReentrancy]_vars

(***************************************************************************)
(* Claims about re-entrancy, under SpecReentrancy.                         *)
(***************************************************************************)
\* C15: while a call on the factory or on the registry is executing, no other
\* state-changing function of the same contract is entered: from the call
\* withdrawFees or registerToken makes until it returns, no step changes the
\* storage or the balance of the contract that waits.
C15_NoReentry ==
    [][/\ ~idle
       /\ executing'.contract = executing.contract
       => /\ executing.contract = FactoryAddress => UNCHANGED factoryVars
          /\ executing.contract = RegistryAddress => UNCHANGED registryVars]_vars

(***************************************************************************)
(* The roles and the owner of a URBEToken: the role functions of the       *)
(* contract, those it inherits from AccessControl (grantRole, revokeRole,  *)
(* renounceRole), the ownership functions of Ownable, pause, unpause and   *)
(* togglePausing.                                                          *)
(***************************************************************************)
NextTokenRoles ==
    \E caller \in Users :
        \/ \E account \in Users : grantMinterRole(caller, account)
        \/ \E account \in Users : revokeMinterRole(caller, account)
        \/ \E account \in Users : grantBurnerRole(caller, account)
        \/ \E account \in Users : revokeBurnerRole(caller, account)
        \/ \E account \in Users : grantPauserRole(caller, account)
        \/ \E account \in Users : revokePauserRole(caller, account)
        \/ \E role \in Roles, account \in Users : grantRole(caller, role, account)
        \/ \E role \in Roles, account \in Users : revokeRole(caller, role, account)
        \/ \E role \in Roles, callerConfirmation \in Users :
              renounceRole(caller, role, callerConfirmation)
        \/ \E newOwner \in Addresses : transferOwnership(caller, newOwner)
        \/ renounceOwnership(caller)
        \/ pause(caller)
        \/ unpause(caller)
        \/ \E enabled \in BOOLEAN : togglePausing(caller, enabled)

SpecTokenRoles == InitTokenAlone /\ [][NextTokenRoles]_vars

(***************************************************************************)
(* Claims about the roles, under SpecTokenRoles.                           *)
(***************************************************************************)
ManagedRoles == {MINTER_ROLE, BURNER_ROLE, PAUSER_ROLE}

\* C16: the holders of MINTER_ROLE, BURNER_ROLE and PAUSER_ROLE change only by
\* a call of the current owner: no call of another account adds or removes a
\* holder, be it grantRole or revokeRole, which change the holders when they
\* succeed, or renounceRole, which removes the caller when it holds the role.
C16_OwnerOnlyRoleManagement ==
    \A caller \in Users \ {owner}, role \in ManagedRoles :
        /\ adminRoleResult(caller, role) # OK
        /\ ~(renounceRoleResult(caller, role, caller) = OK /\ hasRole(role, caller))

\* C17: the current owner passes the access check of mintByMinter, of
\* burnFrom, and of pause and unpause.
C17_OwnerPermitted ==
    owner \in Users
    => /\ onlyRole(MINTER_ROLE, owner) = OK
       /\ onlyRole(BURNER_ROLE, owner) = OK
       /\ onlyRole(PAUSER_ROLE, owner) = OK

\* C18: pause and unpause succeed only for a holder of PAUSER_ROLE while
\* pausingEnabled is true, pause on a token that is not paused and unpause on a
\* paused one; for a holder, with pausingEnabled false, pause on a token that
\* is not paused and unpause on a paused one are refused with PausingDisabled.
\* So a token that is paused while pausingEnabled is false stays paused in
\* every step, and pausingEnabled changes by togglePausing of the owner only.
C18_Checks ==
    \A caller \in Users :
        /\ pauseResult(caller) = OK
           <=> hasRole(PAUSER_ROLE, caller) /\ pausingEnabled /\ ~paused
        /\ unpauseResult(caller) = OK
           <=> hasRole(PAUSER_ROLE, caller) /\ pausingEnabled /\ paused
        /\ hasRole(PAUSER_ROLE, caller) /\ ~pausingEnabled /\ ~paused
           => pauseResult(caller) = "PausingDisabled"
        /\ hasRole(PAUSER_ROLE, caller) /\ ~pausingEnabled /\ paused
           => unpauseResult(caller) = "PausingDisabled"

C18_PauseStep ==
    /\ paused /\ ~pausingEnabled /\ ~pausingEnabled' => paused'
    /\ paused # paused' => pausingEnabled /\ pausingEnabled'
    /\ pausingEnabled # pausingEnabled'
       => /\ owner \in Users
          /\ togglePausing(owner, pausingEnabled')
          /\ paused' = paused

NextTokenSupply ==
    \E caller \in Users :
        \/ \E to \in Addresses, amount \in Uint : mint(caller, to, amount)
        \/ \E to \in Addresses, amount \in Uint : mintByMinter(caller, to, amount)
        \/ \E amount \in Uint : burn(caller, amount)
        \/ \E from \in Addresses, amount \in Uint : burnFrom(caller, from, amount)
        \/ \E spender \in Addresses \ {caller}, value \in ApproveValues :
              approve(caller, spender, value)
        \/ pause(caller)
        \/ unpause(caller)
        \/ \E enabled \in BOOLEAN : toggleMinting(caller, enabled)
        \/ \E enabled \in BOOLEAN : toggleBurning(caller, enabled)
        \/ \E enabled \in BOOLEAN : togglePausing(caller, enabled)
        \/ \E account \in Addresses : grantMinterRole(caller, account)
        \/ \E account \in Addresses : revokeMinterRole(caller, account)
        \/ \E account \in Addresses : grantBurnerRole(caller, account)
        \/ \E account \in Addresses : revokeBurnerRole(caller, account)
        \/ \E newOwner \in Addresses : transferOwnership(caller, newOwner)
        \/ renounceOwnership(caller)

SpecTokenSupply == InitTokenAlone /\ [][NextTokenSupply]_vars

(***************************************************************************)
(* URBEToken's calls on the balances and the supply: every call of         *)
(* NextToken but the grant and the revocation of PAUSER_ROLE, which gate   *)
(* pause and unpause next to the owner and move no token.                  *)
(***************************************************************************)
NextTokenMovement ==
    \E caller \in Users :
        \/ \E to \in Addresses, amount \in Uint : mint(caller, to, amount)
        \/ \E to \in Addresses, amount \in Uint : mintByMinter(caller, to, amount)
        \/ \E amount \in Uint : burn(caller, amount)
        \/ \E from \in Addresses, amount \in Uint : burnFrom(caller, from, amount)
        \/ \E to \in Addresses, value \in Uint : transfer(caller, to, value)
        \/ \E from \in Users, to \in Addresses, value \in Uint :
              transferFrom(caller, from, to, value)
        \/ \E spender \in Addresses \ {caller}, value \in ApproveValues :
              approve(caller, spender, value)
        \/ pause(caller)
        \/ unpause(caller)
        \/ \E enabled \in BOOLEAN : toggleMinting(caller, enabled)
        \/ \E enabled \in BOOLEAN : toggleBurning(caller, enabled)
        \/ \E enabled \in BOOLEAN : togglePausing(caller, enabled)
        \/ \E account \in Addresses : grantMinterRole(caller, account)
        \/ \E account \in Addresses : revokeMinterRole(caller, account)
        \/ \E account \in Addresses : grantBurnerRole(caller, account)
        \/ \E account \in Addresses : revokeBurnerRole(caller, account)
        \/ \E newOwner \in Addresses : transferOwnership(caller, newOwner)
        \/ renounceOwnership(caller)

SpecTokenMovement == InitTokenAlone /\ [][NextTokenMovement]_vars

(***************************************************************************)
(* Claims about the feature flags and burnFrom, under SpecTokenSupply.     *)
(***************************************************************************)
\* C19: only the owner's toggleMinting, toggleBurning and togglePausing
\* succeed.  While mintingEnabled is false every mint and mintByMinter is
\* refused, for every caller; the reason is MintingDisabled when the caller
\* passes the access check (the owner for mint, a MINTER_ROLE holder for
\* mintByMinter) and the token is not paused.  While burningEnabled is false
\* every burn and burnFrom is refused, with BurningDisabled when the caller
\* passes the access check and the token is not paused.  With the flag true
\* again a valid call succeeds.  A toggle changes its own flag and nothing
\* else.
C19_Refused ==
    \A caller \in Users, account \in Addresses, amount \in Uint :
        /\ caller # owner => onlyOwner(caller) # OK
        /\ ~mintingEnabled
           => /\ mintResult(caller, account, amount) # OK
              /\ mintByMinterResult(caller, account, amount) # OK
              /\ caller = owner /\ ~paused
                 => mintResult(caller, account, amount) = "MintingDisabled"
              /\ hasRole(MINTER_ROLE, caller) /\ ~paused
                 => mintByMinterResult(caller, account, amount) = "MintingDisabled"
        /\ ~burningEnabled
           => /\ burnResult(caller, amount) # OK
              /\ burnFromResult(caller, account, amount) # OK
              /\ ~paused => burnResult(caller, amount) = "BurningDisabled"
              /\ hasRole(BURNER_ROLE, caller) /\ ~paused
                 => burnFromResult(caller, account, amount) = "BurningDisabled"
        /\ /\ mintingEnabled
           /\ ~paused
           /\ account # Zero
           /\ amount # 0
           /\ totalSupply + amount <= MaxSupply
           => /\ caller = owner => mintResult(caller, account, amount) = OK
              /\ hasRole(MINTER_ROLE, caller)
                 => mintByMinterResult(caller, account, amount) = OK
        /\ /\ burningEnabled
           /\ ~paused
           /\ amount # 0
           => /\ balanceOf(caller) >= amount => burnResult(caller, amount) = OK
              /\ /\ hasRole(BURNER_ROLE, caller)
                 /\ account # Zero
                 /\ balanceOf(account) >= amount
                 => burnFromResult(caller, account, amount) = OK

C19_ToggleStep ==
    /\ mintingEnabled' # mintingEnabled
       => /\ owner \in Users
          /\ toggleMinting(owner, mintingEnabled')
          /\ UNCHANGED <<balances, totalSupply, allowances, owner, roles, paused,
                         burningEnabled, pausingEnabled>>
    /\ burningEnabled' # burningEnabled
       => /\ owner \in Users
          /\ toggleBurning(owner, burningEnabled')
          /\ UNCHANGED <<balances, totalSupply, allowances, owner, roles, paused,
                         mintingEnabled, pausingEnabled>>
    /\ pausingEnabled' # pausingEnabled
       => /\ owner \in Users
          /\ togglePausing(owner, pausingEnabled')
          /\ UNCHANGED <<balances, totalSupply, allowances, owner, roles, paused,
                         mintingEnabled, burningEnabled>>

C19_FeatureToggles == []C19_Refused /\ [][C19_ToggleStep]_vars

\* C19 as stated: while a flag is false the refusal is MintingDisabled, or
\* BurningDisabled, for every caller
C19_AsStated ==
    \A caller \in Users, account \in Addresses, amount \in Uint :
        /\ ~mintingEnabled
           => /\ mintResult(caller, account, amount) = "MintingDisabled"
              /\ mintByMinterResult(caller, account, amount) = "MintingDisabled"
        /\ ~burningEnabled
           => /\ burnResult(caller, amount) = "BurningDisabled"
              /\ burnFromResult(caller, account, amount) = "BurningDisabled"

\* tokens were minted up to the cap and some were burned by a holder that is
\* not the owner, and now minting and burning are switched off
C19_Witness ==
    /\ ~mintingEnabled
    /\ ~burningEnabled
    /\ totalSupply = MaxSupply
    /\ \E u \in Users \ {owner} : hasRole(MINTER_ROLE, u) /\ hasRole(BURNER_ROLE, u)

\* C20: burnFrom(from, amount) succeeds only for a holder of BURNER_ROLE, and
\* any other caller is refused before every other check.  For a holder, on a
\* token that is not paused and has burning enabled, from == 0 is refused with
\* ZeroAddress, then amount == 0 with ZeroAmount, then balanceOf(from) < amount
\* with InsufficientBalance, and every other call succeeds, whatever allowance
\* from gave the caller.  A successful call takes amount from balanceOf(from)
\* and from totalSupply and leaves the other balances and all allowances.
C20_Checks ==
    \A caller \in Users, from \in Addresses, amount \in Uint :
        LET result == burnFromResult(caller, from, amount)
        IN  /\ result = OK => hasRole(BURNER_ROLE, caller)
            /\ ~hasRole(BURNER_ROLE, caller)
               => result = "AccessControlUnauthorizedAccount"
            /\ hasRole(BURNER_ROLE, caller) /\ ~paused /\ burningEnabled
               => result = IF from = Zero THEN "ZeroAddress"
                           ELSE IF amount = 0 THEN "ZeroAmount"
                           ELSE IF balanceOf(from) < amount THEN "InsufficientBalance"
                           ELSE OK

\* a successful burnFrom takes at least 1 from totalSupply
C20_BurnStep ==
    totalSupply' < totalSupply
    => \A caller \in Users, from \in Users, amount \in Uint :
           /\ burnFromResult(caller, from, amount) = OK
           /\ burnFrom(caller, from, amount)
           => /\ balances'[from] = balances[from] - amount
              /\ \A u \in Users \ {from} : balances'[u] = balances[u]
              /\ totalSupply' = totalSupply - amount
              /\ allowances' = allowances

C21_Checks ==
    \A caller \in Users, amount \in Uint :
        LET result == burnResult(caller, amount)
        IN  /\ paused => result # OK
            /\ ~paused
               => result = IF ~burningEnabled THEN "BurningDisabled"
                           ELSE IF amount = 0 THEN "ZeroAmount"
                           ELSE IF balanceOf(caller) < amount THEN "InsufficientBalance"
                           ELSE OK

C21_MintsReachCap ==
    /\ totalSupply <= MaxSupply
    /\ mintingEnabled /\ ~paused /\ owner \in Users
       => \A to \in Users :
             /\ remainingMintableSupply > 0
                => mintResult(owner, to, remainingMintableSupply) = OK
             /\ mintResult(owner, to, remainingMintableSupply + 1) # OK

C21_BurnStep ==
    totalSupply' < totalSupply
    => \A caller \in Users, amount \in Uint :
           /\ burnResult(caller, amount) = OK
           /\ burn(caller, amount)
           => /\ balances'[caller] = balances[caller] - amount
              /\ \A u \in Users \ {caller} : balances'[u] = balances[u]
              /\ totalSupply' = totalSupply - amount

C21_SelfBurn == [](C21_Checks /\ C21_MintsReachCap) /\ [][C21_BurnStep]_vars

\* bob is not the owner and holds no role; the supply is at the cap, bob
\* holds all of it and bob's burn of all of it succeeds
C21_Witness ==
    /\ owner = "alice"
    /\ \A r \in Roles : ~hasRole(r, "bob")
    /\ totalSupply = MaxSupply
    /\ balanceOf("bob") = MaxSupply
    /\ burnResult("bob", MaxSupply) = OK

(***************************************************************************)
(* The factory and the registry with their pause flags: the deployments,   *)
(* the registrations, the verification of a registered token and the two   *)
(* setters of the flags.                                                   *)
(***************************************************************************)
NextPause ==
    \E caller \in Users :
        \/ \E name \in TokenNameInputs :
              deployToken(caller, name, "SYM", 1, MaxSupply, AllEnabled, 0, 1)
        \/ \E tokenOwner \in Addresses :
              deployTokenWithOwner(caller, "Name", "SYM", 1, MaxSupply, tokenOwner,
                                   AllEnabled, 0, 1)
        \/ \E k \in CategoryInputs :
              registerToken(caller, "t1", FirstMeta, k, <<"tag">>, 0, 1, 1)
        \/ \E creator \in Addresses :
              registerTokenForCreator(caller, "t2", FirstMeta, 0, <<"tag">>, creator,
                                      0, 1, 1)
        \/ \E verified \in BOOLEAN : setTokenVerification(caller, "t1", verified)
        \/ \E p \in BOOLEAN : setFactoryPaused(caller, p)
        \/ \E p \in BOOLEAN : setRegistryPaused(caller, p)

SpecPause == InitFees /\ [][NextPause]_vars

(***************************************************************************)
(* Claims about the pause flags of the factory and the registry, under     *)
(* SpecPause.                                                              *)
(***************************************************************************)
\* C22: while factoryPaused is true every deployToken and deployTokenWithOwner
\* is refused with FactoryPaused, and while registryPaused is true every
\* registerToken and registerTokenForCreator is refused with RegistryPaused,
\* whatever the arguments: the pause check comes before every other
\* validation.  With the flag false a valid call succeeds.  A call of the
\* setter by an account that is not the owner is refused.
C22_Checks ==
    /\ \A sender \in Users, name \in TokenNameInputs, symbol \in TokenSymbolInputs,
          initialSupply \in InitialSupplyInputs, maxSupply \in MaxSupplyInputs,
          tokenOwner \in Addresses, value \in MsgValues :
          LET result == deployTokenResult(sender, name, symbol, initialSupply,
                                          maxSupply, tokenOwner, value)
          IN  /\ factoryPaused => result = "FactoryPaused"
              /\ /\ ~factoryPaused
                 /\ name # "" /\ symbol # ""
                 /\ initialSupply # 0 /\ initialSupply <= maxSupply
                 /\ tokenOwner # Zero
                 /\ value >= deploymentFee
                 /\ getTokenCountByCreator(sender) < maxTokensPerCreator
                 => result = OK
    /\ \A t \in TokenAddresses, k \in CategoryInputs, value \in MsgValues :
          LET result == registerTokenResult(t, k, value)
          IN  /\ registryPaused => result = "RegistryPaused"
              /\ /\ ~registryPaused
                 /\ t \in Tokens /\ ~tokenMetadata[t].active
                 /\ k < totalCategories
                 /\ value >= registrationFee
                 => result = OK
    /\ \A caller \in Users :
          /\ caller # FactoryOwner
             => onlyFactoryOwner(caller) = "OwnableUnauthorizedAccount"
          /\ caller # RegistryOwner
             => onlyRegistryOwner(caller) = "OwnableUnauthorizedAccount"

\* no step taken while a contract is paused changes its token lists, its
\* count of tokens or a creator's count of tokens, and a flag changes only in
\* the owner's call of its setter
C22_PausedStep ==
    /\ factoryPaused
       => UNCHANGED <<tokensByCreator, tokenInfo, facAllTokens, totalTokensDeployed,
                      deployedTokens>>
    /\ registryPaused
       => /\ UNCHANGED <<regAllTokens, totalTokensRegistered, allCreators,
                         totalCreators>>
          /\ \A c \in DOMAIN creatorInfo :
                creatorInfo'[c].totalTokens = creatorInfo[c].totalTokens
          /\ \A t \in DOMAIN tokenMetadata :
                tokenMetadata'[t].active = tokenMetadata[t].active
    /\ factoryPaused' # factoryPaused
       => setFactoryPaused(FactoryOwner, factoryPaused')
    /\ registryPaused' # registryPaused
       => setRegistryPaused(RegistryOwner, registryPaused')

NextRegistryQueries ==
    \/ RegistrationCalls({FirstMeta}, {0})
    \/ VerificationCalls
    \/ \E caller \in Users :
          \/ \E creator \in Addresses, verified \in BOOLEAN :
                setCreatorVerification(caller, creator, verified)
          \/ createCategory(caller, "n", "d")
          \/ \E k \in CategoryInputs, active \in BOOLEAN :
                updateCategory(caller, k, "n", "d", active)

SpecRegistryQueries == InitRegistryAlone /\ [][NextRegistryQueries]_vars

(***************************************************************************)
(* Claims about the registry's queries and categories, under               *)
(* SpecRegistryQueries.                                                    *)
(***************************************************************************)
\* result holds exactly the elements of all at the indices kept, in the order
\* of all
IsSubsequenceAt(result, all, kept) ==
    /\ Len(result) = Cardinality(kept)
    /\ \A i \in kept : result[Cardinality({h \in kept : h <= i})] = all[i]

\* C23: getTokensByCreator(c), getTokensByCategory(k) and getVerifiedTokens()
\* return the tokens of allTokens whose creator is c, whose category is k, or
\* that are verified: each of them once, none left out, in the order of
\* allTokens.  getTokensByCategory(k) is refused with InvalidCategoryId exactly
\* when k >= totalCategories.  The verifiedTokens and verifiedCreators of
\* getStatistics() are the lengths of getVerifiedTokens() and
\* getVerifiedCreators().
C23_FilteredQueries ==
    /\ \A c \in Addresses :
          /\ IsSubsequenceAt(getTokensByCreator(c), regAllTokens,
                {i \in DOMAIN regAllTokens : tokenMetadata[regAllTokens[i]].creator = c})
          /\ NoDuplicates(getTokensByCreator(c))
    /\ \A k \in CategoryIds :
          /\ getTokensByCategoryResult(k) = "InvalidCategoryId" <=> k >= totalCategories
          /\ getTokensByCategoryResult(k) # "InvalidCategoryId"
             => /\ getTokensByCategoryResult(k) = OK
                /\ IsSubsequenceAt(getTokensByCategory(k), regAllTokens,
                      {i \in DOMAIN regAllTokens :
                          tokenMetadata[regAllTokens[i]].category = k})
                /\ NoDuplicates(getTokensByCategory(k))
    /\ IsSubsequenceAt(getVerifiedTokens, regAllTokens,
          {i \in DOMAIN regAllTokens : tokenMetadata[regAllTokens[i]].verified})
    /\ NoDuplicates(getVerifiedTokens)
    /\ getStatistics.verifiedTokens = Len(getVerifiedTokens)
    /\ getStatistics.verifiedCreators = Len(getVerifiedCreators)

\* tokens of two creators and of two categories are registered, the second
\* of them is verified and so is its creator
C23_Witness ==
    /\ Len(regAllTokens) >= 2
    /\ tokenMetadata[regAllTokens[1]].creator # tokenMetadata[regAllTokens[2]].creator
    /\ tokenMetadata[regAllTokens[1]].category # tokenMetadata[regAllTokens[2]].category
    /\ ~tokenMetadata[regAllTokens[1]].verified
    /\ tokenMetadata[regAllTokens[2]].verified
    /\ Len(getVerifiedCreators) = 1
    /\ getTokensByCategory(5) = <<regAllTokens[2]>>

\* C25: totalCategories is at least the 5 categories of the constructor, and
\* for every category id k < totalCategories, categories[k].tokenCount is the
\* number of registered tokens whose category is k, the length of
\* getTokensByCategory(k).
C25_CategoryStatistics ==
    /\ totalCategories >= DefaultCategories
    /\ \A k \in CategoryIds :
          k < totalCategories
          => categories[k].tokenCount = Len(getTokensByCategory(k))

(***************************************************************************)
(* Claims about the factory's queries, under SpecFactory.                  *)
(***************************************************************************)
Min(a, b) == IF a < b THEN a ELSE b

\* C24: for every creator c and every offset and limit,
\* getTokensByCreatorPaginated(c, offset, limit) returns the length of
\* tokensByCreator[c] as total and the elements of tokensByCreator[c] at the
\* indices offset .. min(offset + limit, total) - 1 as tokens, none when
\* offset >= total or limit == 0.  getTokenByCreatorAtIndex(c, i) returns the
\* tokenInfo of the i-th token of c and is refused with IndexOutOfBounds
\* exactly when i >= length(tokensByCreator[c]).
C24_Pagination ==
    \A c \in Users, offset \in Uint, limit \in Uint :
        LET total == Len(tokensByCreator[c])
            page == getTokensByCreatorPaginated(c, offset, limit)
        IN  /\ getTokensByCreatorPaginatedResult(c, offset, limit) = OK
            /\ page.total = total
            /\ page.tokens
                  = SubSeq(tokensByCreator[c], offset + 1, Min(offset + limit, total))
            /\ offset >= total \/ limit = 0 => page.tokens = <<>>
            /\ getTokenByCreatorAtIndexResult(c, offset) = "IndexOutOfBounds"
                  <=> offset >= total
            /\ offset < total
               => /\ getTokenByCreatorAtIndexResult(c, offset) = OK
                  /\ getTokenByCreatorAtIndex(c, offset)
                        = tokenInfo[tokensByCreator[c][offset + 1]]

(***************************************************************************)
(* SimpleStorage.                                                          *)
(*                                                                         *)
(* One stored value, written by the owner, and the counts of the stores.   *)
(* The contract calls no other contract, so its ReentrancyGuard is never   *)
(* found set.                                                              *)
(***************************************************************************)
MAX_VALUE == 1000000

\* store is called until MaxStores stores have succeeded
MaxStores == 4

StorageAddress == "storage"

\* the constructor argument
StorageInitialOwner == "alice"

\* the values at and around the two limits of store
StoreValues == {0, 1, 42, MAX_VALUE, MAX_VALUE + 1}

onlyStorageOwner(caller) ==
    IF caller # storageOwner THEN "OwnableUnauthorizedAccount" ELSE OK

\* mutant: store without the ValueTooHigh check
storeResultNoMax(caller, newValue) ==
    Then(onlyStorageOwner(caller),
         Then(nonReentrant(StorageAddress),
              IF newValue = 0 THEN "InvalidValue" ELSE OK))

storeResult(caller, newValue) ==
    Then(onlyStorageOwner(caller),
         Then(nonReentrant(StorageAddress),
              IF newValue = 0 THEN "InvalidValue"
              ELSE IF newValue > MAX_VALUE THEN "ValueTooHigh"
              ELSE OK))

\* mutant: a store that does not count for its caller
StoredWithoutUserCount(caller, newValue) ==
    /\ storedValue' = newValue
    /\ totalStores' = totalStores + 1
    /\ UNCHANGED userStores

\* SimpleStorage.store: the three writes
Stored(caller, newValue) ==
    /\ storedValue' = newValue
    /\ totalStores' = totalStores + 1
    /\ userStores' = [userStores EXCEPT ![caller] = @ + 1]

store(caller, newValue) ==
    /\ /\ totalStores < MaxStores
       /\ IF storeResult(caller, newValue) = OK
          THEN Stored(caller, newValue) /\ UNCHANGED storageOwner
          ELSE UNCHANGED storageVars
    /\ UNCHANGED <<tokenVars, registryVars, factoryVars, executing, walletVars, pageVars>>

\* SimpleStorage.retrieve: an event and the value; no write
retrieveValue == storedValue

retrieve(caller) ==
    /\ UNCHANGED storageVars
    /\ UNCHANGED <<tokenVars, registryVars, factoryVars, executing, walletVars, pageVars>>

\* view functions
getTotalStores == totalStores
getUserStores(user) == userStores[user]

\* Ownable.transferOwnership and Ownable.renounceOwnership
storageTransferOwnershipResult(caller, newOwner) ==
    Then(onlyStorageOwner(caller),
         IF newOwner = Zero THEN "OwnableInvalidOwner" ELSE OK)

storageTransferOwnership(caller, newOwner) ==
    /\ IF storageTransferOwnershipResult(caller, newOwner) = OK
       THEN storageOwner' = newOwner /\ UNCHANGED <<storedValue, totalStores, userStores>>
       ELSE UNCHANGED storageVars
    /\ UNCHANGED <<tokenVars, registryVars, factoryVars, executing, walletVars, pageVars>>

storageRenounceOwnership(caller) ==
    /\ IF onlyStorageOwner(caller) = OK
       THEN storageOwner' = Zero /\ UNCHANGED <<storedValue, totalStores, userStores>>
       ELSE UNCHANGED storageVars
    /\ UNCHANGED <<tokenVars, registryVars, factoryVars, executing, walletVars, pageVars>>

InitStorage ==
    /\ storageOwner = StorageInitialOwner
    /\ storedValue = 0
    /\ totalStores = 0
    /\ userStores = [u \in Addresses |-> 0]

InitStorageAlone ==
    /\ InitStorage
    /\ TokenAbsent /\ RegistryAbsent /\ FactoryAbsent /\ executing = NoCall
    /\ WalletAbsent /\ PageAbsent

NextStorage ==
    \E caller \in Users :
        \/ \E newValue \in StoreValues : store(caller, newValue)
        \/ retrieve(caller)
        \/ \E newOwner \in Addresses : storageTransferOwnership(caller, newOwner)
        \/ storageRenounceOwnership(caller)

SpecStorage == InitStorageAlone /\ [][NextStorage]_vars

(***************************************************************************)
(* Claims about SimpleStorage, under SpecStorage.                          *)
(***************************************************************************)
\* C26: store(v) succeeds exactly when the caller is the owner and
\* 1 <= v <= MAX_VALUE; for the owner v == 0 is refused with InvalidValue and
\* v > MAX_VALUE with ValueTooHigh, and any other caller is refused.  The
\* stored value is in 0 .. MAX_VALUE and is 0 only while no store has
\* succeeded.  A successful store(v) makes v the value retrieve() returns, and
\* no other step changes it.
C26_Checks ==
    \A caller \in Users, v \in StoreValues :
        /\ storeResult(caller, v) = OK
              <=> caller = storageOwner /\ 1 <= v /\ v <= MAX_VALUE
        /\ caller # storageOwner
              => storeResult(caller, v) = "OwnableUnauthorizedAccount"
        /\ caller = storageOwner /\ v = 0 => storeResult(caller, v) = "InvalidValue"
        /\ caller = storageOwner /\ v > MAX_VALUE
              => storeResult(caller, v) = "ValueTooHigh"

C26_Range ==
    /\ retrieveValue \in 0 .. MAX_VALUE
    /\ retrieveValue = 0 => getTotalStores = 0

C26_ValueStep ==
    /\ \A caller \in Users, v \in StoreValues :
          storeResult(caller, v) = OK /\ store(caller, v) => retrieveValue' = v
    /\ retrieveValue' # retrieveValue
       => \E v \in StoreValues :
             /\ storeResult(storageOwner, v) = OK
             /\ store(storageOwner, v)

RECURSIVE SumOfStores(_)
SumOfStores(users) ==
    IF users = {} THEN 0
    ELSE LET u == CHOOSE x \in users : TRUE
         IN  getUserStores(u) + SumOfStores(users \ {u})

\* C27: getTotalStores() is the sum of getUserStores(u) over all addresses u.
\* A successful store by u adds 1 to getTotalStores() and to getUserStores(u)
\* and leaves the count of every other address; a refused store and a
\* retrieve leave all counts; no other step changes a count.  So
\* getTotalStores() is the number of stores that succeeded, also after the
\* ownership moved and the new owner stored.
C27_Sum == getTotalStores = SumOfStores(Addresses)

C27_CountStep ==
    /\ \A caller \in Users, v \in StoreValues :
          store(caller, v)
          => IF storeResult(caller, v) = OK
             THEN /\ totalStores' = totalStores + 1
                  /\ userStores'[caller] = userStores[caller] + 1
                  /\ \A u \in Addresses \ {caller} : userStores'[u] = userStores[u]
             ELSE UNCHANGED <<totalStores, userStores>>
    /\ \A caller \in Users : retrieve(caller) => UNCHANGED <<totalStores, userStores>>
    /\ totalStores' # totalStores \/ userStores' # userStores
       => \E v \in StoreValues :
             /\ storeResult(storageOwner, v) = OK
             /\ store(storageOwner, v)

C27_Counters == []C27_Sum /\ [][C27_CountStep]_vars

\* alice stored twice, transferred the ownership, and bob stored twice
C27_Witness ==
    /\ storageOwner = "bob"
    /\ getUserStores("alice") = 2
    /\ getUserStores("bob") = 2
    /\ getTotalStores = 4

(***************************************************************************)
(* Claims about the cap as a bound on the lists, under SpecFactory.        *)
(***************************************************************************)
\* C28 as stated: in every state every creator's getTokenCountByCreator is at
\* most maxTokensPerCreator
C28_AsStated ==
    \A c \in Users : getTokenCountByCreator(c) <= maxTokensPerCreator

\* C28: a creator's list grows only in a deployment, by one token, to a length
\* of at most maxTokensPerCreator, and the deployment leaves the cap.  The
\* bound of every list by maxTokensPerCreator holds after construction and
\* after every step taken from a state where it holds, except a
\* setMaxTokensPerCreator that sets the cap below the length of a list: the
\* owner's setMaxTokensPerCreator(newMax) succeeds for every newMax and
\* leaves the lists.
C28_CapStep ==
    /\ \A c \in Users :
          getTokenCountByCreator(c)' # getTokenCountByCreator(c)
          => /\ getTokenCountByCreator(c)' = getTokenCountByCreator(c) + 1
             /\ getTokenCountByCreator(c)' <= maxTokensPerCreator
             /\ maxTokensPerCreator' = maxTokensPerCreator
    /\ /\ C28_AsStated
       /\ \A c \in Users : getTokenCountByCreator(c) <= maxTokensPerCreator'
       => C28_AsStated'
    /\ maxTokensPerCreator' # maxTokensPerCreator
       => /\ setMaxTokensPerCreator(FactoryOwner, maxTokensPerCreator')
          /\ UNCHANGED tokensByCreator

C28_InitiallyBelowCap ==
    totalTokensDeployed = 0 => C28_AsStated

C28_CapBoundsGrowth == []C28_InitiallyBelowCap /\ [][C28_CapStep]_vars

\* alice deployed two tokens and the owner lowered the cap to one
C28_Witness ==
    /\ getTokenCountByCreator("alice") = 2
    /\ maxTokensPerCreator = 1

(***************************************************************************)
(* useWalletTransactions.  A Transaction is modelled by its hash, its      *)
(* status and the account it belongs to: the address whose fetch kept it   *)
(* (the filter on tx.from and tx.to) or the address that was connected     *)
(* when it was added.  Every update of the state is one step; a call of    *)
(* fetchTransactions is a step up to its first await and a second step     *)
(* when its promises settle, and any other step can come between the two.  *)
(***************************************************************************)
MaxTransactions == 2
MaxFetches == 2

WalletAddresses == {"alice", "bob"}
Hashes == {"0xa", "0xb"}
Statuses == {"pending", "success", "failed"}

\* the recentTransactions a fetch for the address a can collect
RecentTransactions(a) ==
    {<<>>, <<[hash |-> "0xf", account |-> a, status |-> "success"]>>}

\* the other programs are left alone
WalletFrame == UNCHANGED <<tokenVars, registryVars, factoryVars, executing, storageVars, pageVars>>

\* fetchTransactions up to its first await, called in a render where the
\* address is a
fetchTransactionsFor(a) ==
    IF a = Undefined
    THEN UNCHANGED <<isLoading, error, fetching>>
    ELSE /\ isLoading' = TRUE
         /\ error' = Null
         /\ fetching' = fetching (+) SetToBag({a})

\* fetchTransactions(), called by the component (the refresh of the list)
fetchTransactions ==
    /\ BagCardinality(fetching) < MaxFetches
    /\ fetchTransactionsFor(address)
    /\ UNCHANGED <<address, transactions>>
    /\ WalletFrame

\* the account changes to a (Undefined: it disconnects) and the effect on
\* [address] runs
accountChanged(a) ==
    /\ a # address
    /\ BagCardinality(fetching) < MaxFetches
    /\ address' = a
    /\ IF a # Undefined
       THEN /\ fetchTransactionsFor(a)
            /\ UNCHANGED transactions
       ELSE /\ transactions' = <<>>
            /\ UNCHANGED <<isLoading, error, fetching>>
    /\ WalletFrame

\* the awaits of a call that read the address a are fulfilled: the rest of
\* the try block and the finally block run
fetchFulfilled(a, recentTransactions) ==
    /\ BagIn(a, fetching)
    /\ transactions' = recentTransactions
    /\ isLoading' = FALSE
    /\ fetching' = fetching (-) SetToBag({a})
    /\ UNCHANGED <<address, error>>
    /\ WalletFrame

\* an await of a call that read the address a is rejected: the catch block
\* and the finally block run
fetchRejected(a) ==
    /\ BagIn(a, fetching)
    /\ error' = "Failed to fetch transaction history"
    /\ isLoading' = FALSE
    /\ fetching' = fetching (-) SetToBag({a})
    /\ UNCHANGED <<address, transactions>>
    /\ WalletFrame

addTransaction(hash, txStatus) ==
    /\ Len(transactions) < MaxTransactions
    /\ transactions' = <<[hash |-> hash, account |-> address, status |-> txStatus]>> \o transactions
    /\ UNCHANGED <<address, isLoading, error, fetching>>
    /\ WalletFrame

updateTransactionStatus(hash, txStatus) ==
    /\ transactions' = [i \in DOMAIN transactions |->
                          IF transactions[i].hash = hash
                          THEN [transactions[i] EXCEPT !.status = txStatus]
                          ELSE transactions[i]]
    /\ UNCHANGED <<address, isLoading, error, fetching>>
    /\ WalletFrame

clearTransactions ==
    /\ transactions' = <<>>
    /\ UNCHANGED <<address, isLoading, error, fetching>>
    /\ WalletFrame

\* the component is mounted while no account is connected
InitWallet == WalletAbsent

InitWalletAlone ==
    /\ InitWallet
    /\ TokenAbsent /\ RegistryAbsent /\ FactoryAbsent /\ executing = NoCall
    /\ StorageAbsent /\ PageAbsent

NextWallet ==
    \/ fetchTransactions
    \/ \E a \in WalletAddresses \cup {Undefined} : accountChanged(a)
    \/ \E a \in WalletAddresses : \E recent \in RecentTransactions(a) : fetchFulfilled(a, recent)
    \/ \E a \in WalletAddresses : fetchRejected(a)
    \/ \E hash \in Hashes : \E txStatus \in Statuses : addTransaction(hash, txStatus)
    \/ \E hash \in Hashes : \E txStatus \in Statuses : updateTransactionStatus(hash, txStatus)
    \/ clearTransactions

SpecWallet == InitWalletAlone /\ [][NextWallet]_vars

\* C29: the list is empty while no address is connected and otherwise holds
\* only entries fetched for, or added under, the connected address
C29_ListOfConnectedAccount ==
    /\ address = Undefined => transactions = <<>>
    /\ \A i \in DOMAIN transactions : transactions[i].account = address

\* C29: isLoading is false once no call of fetchTransactions is in flight
C29_NotLoadingWhenIdle ==
    fetching = EmptyBag => isLoading = FALSE

\* C29: a call of fetchTransactions that read an address other than the
\* connected one settles without writing the list
C29_StaleFetchStep ==
    \A a \in WalletAddresses :
        /\ CopiesIn(a, fetching') < CopiesIn(a, fetching)
        /\ a # address
        => UNCHANGED transactions

\* C29: in every step, a fetch started for an earlier address does not
\* overwrite the list after the account changed or disconnected
C29_StaleFetch == [][C29_StaleFetchStep]_vars

(***************************************************************************)
(* AuthCallbackPage.  The effect on [searchParams, navigate] calls         *)
(* handleAuthCallback and returns no cleanup; a setTimeout is a timer that *)
(* fires in a later step, whether or not the page is still mounted.        *)
(* searchParams.get, setStatus and setTimeout do not throw and the awaited *)
(* promise is never rejected, so the catch block is not reached.           *)
(***************************************************************************)
MaxCallbacks == 3

\* the parameters a URL of the page can carry, by name
SearchParamSets == SUBSET {"code", "error", "state"}

\* the other programs are left alone
PageFrame == UNCHANGED <<tokenVars, registryVars, factoryVars, executing, storageVars, walletVars>>

\* the calls of handleAuthCallback made so far: each one is waiting, has a
\* timer pending or has navigated
callbacks == exchanges + BagCardinality(timers) + Len(navigations)

\* handleAuthCallback up to its first await or return, for the parameters p
handleAuthCallback(p) ==
    IF "error" \in p
    THEN /\ status' = "error"
         /\ message' = "Authentication failed: error"
         /\ timers' = timers (+) SetToBag({"/"})
         /\ UNCHANGED exchanges
    ELSE IF "code" \notin p
    THEN /\ status' = "error"
         /\ message' = "No authorization code received"
         /\ timers' = timers (+) SetToBag({"/"})
         /\ UNCHANGED exchanges
    ELSE /\ exchanges' = exchanges + 1
         /\ UNCHANGED <<status, message, timers>>

\* the router renders the page for a URL with the parameters p and the
\* effect runs
mountPage(p) ==
    /\ mounted = "no"
    /\ mounted' = "yes"
    /\ searchParams' = p
    /\ handleAuthCallback(p)
    /\ UNCHANGED navigations
    /\ PageFrame

\* the parameters of the URL change while the page is mounted: the effect
\* runs again
searchParamsChanged(p) ==
    /\ mounted = "yes"
    /\ p # searchParams
    /\ callbacks < MaxCallbacks
    /\ searchParams' = p
    /\ handleAuthCallback(p)
    /\ UNCHANGED <<mounted, navigations>>
    /\ PageFrame

\* the awaited promise of a call of handleAuthCallback is resolved; the
\* state of a page that is no longer mounted is not updated
exchangeDone ==
    /\ exchanges > 0
    /\ exchanges' = exchanges - 1
    /\ IF mounted = "yes"
       THEN /\ status' = "success"
            /\ message' = "Authentication successful! Redirecting..."
       ELSE UNCHANGED <<status, message>>
    /\ timers' = timers (+) SetToBag({"/dashboard"})
    /\ UNCHANGED <<mounted, searchParams, navigations>>
    /\ PageFrame

\* a timer fires and calls navigate(to): the router leaves the page
timerFires(to) ==
    /\ BagIn(to, timers)
    /\ timers' = timers (-) SetToBag({to})
    /\ navigations' = Append(navigations, to)
    /\ mounted' = "gone"
    /\ UNCHANGED <<searchParams, status, message, exchanges>>
    /\ PageFrame

\* the user leaves the page before its timers fire
unmountPage ==
    /\ mounted = "yes"
    /\ mounted' = "gone"
    /\ UNCHANGED <<searchParams, status, message, exchanges, timers, navigations>>
    /\ PageFrame

InitPage == PageAbsent

InitPageAlone ==
    /\ InitPage
    /\ TokenAbsent /\ RegistryAbsent /\ FactoryAbsent /\ executing = NoCall
    /\ StorageAbsent /\ WalletAbsent

NextPage ==
    \/ \E p \in SearchParamSets : mountPage(p)
    \/ \E p \in SearchParamSets : searchParamsChanged(p)
    \/ exchangeDone
    \/ \E to \in {"/", "/dashboard"} : timerFires(to)
    \/ unmountPage

SpecPage == InitPageAlone /\ [][NextPage]_vars

\* C30: status moves only from 'loading' to 'success' or to 'error'
C30_StatusStep ==
    status' # status => status = "loading" /\ status' \in {"success", "error"}

\* C30: the page navigates to '/' if the URL has an error parameter or no
\* code parameter and to '/dashboard' otherwise
C30_Destination ==
    \A i \in DOMAIN navigations :
        navigations[i] = IF "error" \in searchParams \/ "code" \notin searchParams
                         THEN "/" ELSE "/dashboard"

\* C30: for each mount the status never moves back and at most one
\* navigation is performed, to the path the parameters of the URL call for,
\* also when searchParams change or the page is unmounted before the timers
\* fire
C30_CallbackFlow ==
    /\ [](Len(navigations) <= 1 /\ C30_Destination)
    /\ [][C30_StatusStep]_vars
====
